---- MODULE Spec2Model ----
(***************************************************************************)
(* Resilient caching layer of go-fiber-boilerplate: the Redis client with  *)
(* its circuit breaker and availability flag (src/redis/client.go), the    *)
(* HealthMonitor (redis package) and the session cache                     *)
(* (src/service/user_service.go, sessionService).                          *)
(*                                                                         *)
(* Time is kept as "seconds remaining until the breaker's expiry": the     *)
(* breaker only ever compares its expiry with time.Now(), so the           *)
(* difference expiry - now is all that matters.  A handler runs at one     *)
(* instant; time passes between handlers (action Tick).                    *)
(***************************************************************************)
EXTENDS Integers, Sequences, FiniteSets, TLC

(***************************************************************************)
(* Program constants                                                       *)
(***************************************************************************)
\* gobreaker.Settings.MaxRequests
MaxRequests == 5
\* gobreaker.Settings.Interval, seconds
Interval == 60
\* gobreaker.Settings.Timeout, seconds
Timeout == 30
\* ReadyToTrip: counts.ConsecutiveFailures > 3
TripThreshold == 3
\* GenerateSessionID: make([]byte, 32)
SessionIDBytes == 32

(***************************************************************************)
(* Bounds of the model                                                     *)
(***************************************************************************)
\* the ghost counter of consecutive failures saturates here
MaxStreak == 4

\* goroutines started by Auth and not yet run, at most
MaxTasks == 1

\* parameters of a query string, at most
MaxParams == 3

\* bytes of a request path, at most
MaxPath == 3

\* bytes of a SESSION_CACHE_TTL value, at most
MaxTTLLen == 3

\* hits of one rate-limit key within a window that are followed, at most
MaxHits == 7

\* durations (seconds) by which the clock advances between handlers
Elapse == {30}

\* subject identifiers
Users == {"u1"}

\* random draws of crypto/rand, told apart by an index
Entropy == {1}

(***************************************************************************)
(* Error values                                                            *)
(***************************************************************************)
NoErr == "nil"
ErrRedisUnavailable == "redis unavailable"
ErrOpenState == "circuit breaker is open"
ErrTooManyRequests == "too many requests"
ErrCacheMiss == "cache miss"
RedisNil == "redis: nil"
ErrIO == "dial tcp: connection refused"
ErrUnmarshal == "failed to unmarshal session data"
ErrCacheWrite == "failed to cache session"
ErrGenerate == "failed to generate session ID"

Min(a, b) == IF a < b THEN a ELSE b

(***************************************************************************)
(* The circuit breaker (gobreaker.CircuitBreaker as configured by          *)
(* NewRedisClient).  A breaker value is a record                           *)
(*   state, requests, consecutiveSuccesses, consecutiveFailures,           *)
(*   expiryZero (expiry.IsZero()), expiryIn (expiry - now, seconds).       *)
(* requests and consecutiveSuccesses are read in HALF-OPEN only and are     *)
(* cleared on every change of state, so they are kept in HALF-OPEN only.   *)
(***************************************************************************)
StateClosed == "closed"
StateHalfOpen == "half-open"
StateOpen == "open"

\* expiry.Before(now)
Expired(cb) == cb.expiryIn < 0

ReadyToTrip_Off(cb) == cb.consecutiveFailures > TripThreshold + 1

ReadyToTrip(cb) == cb.consecutiveFailures > TripThreshold

toNewGeneration(cb) ==
    [cb EXCEPT !.requests = 0,
               !.consecutiveSuccesses = 0,
               !.consecutiveFailures = 0,
               !.expiryZero = (cb.state = StateHalfOpen),
               !.expiryIn = CASE cb.state = StateClosed -> Interval
                              [] cb.state = StateOpen -> Timeout
                              [] OTHER -> 0]

setState(cb, s) ==
    IF cb.state = s THEN cb ELSE toNewGeneration([cb EXCEPT !.state = s])

currentState_Eager(cb) ==
    CASE cb.state = StateClosed /\ ~cb.expiryZero /\ Expired(cb) -> toNewGeneration(cb)
      [] cb.state = StateOpen -> setState(cb, StateHalfOpen)
      [] OTHER -> cb

\* currentState(now): the interval of CLOSED rolls over, OPEN times out
currentState(cb) ==
    CASE cb.state = StateClosed /\ ~cb.expiryZero /\ Expired(cb) -> toNewGeneration(cb)
      [] cb.state = StateOpen /\ Expired(cb) -> setState(cb, StateHalfOpen)
      [] OTHER -> cb

onRequest(cb) ==
    IF cb.state = StateHalfOpen THEN [cb EXCEPT !.requests = cb.requests + 1] ELSE cb

onSuccess_Once(cb) ==
    LET c == [cb EXCEPT !.consecutiveSuccesses = cb.consecutiveSuccesses + 1,
                        !.consecutiveFailures = 0]
    IN  CASE cb.state = StateClosed -> [cb EXCEPT !.consecutiveFailures = 0]
          [] cb.state = StateHalfOpen -> setState(c, StateClosed)
          [] OTHER -> cb

onSuccess(cb) ==
    LET c == [cb EXCEPT !.consecutiveSuccesses = cb.consecutiveSuccesses + 1,
                        !.consecutiveFailures = 0]
    IN  CASE cb.state = StateClosed -> [cb EXCEPT !.consecutiveFailures = 0]
          [] cb.state = StateHalfOpen ->
                IF c.consecutiveSuccesses >= MaxRequests THEN setState(c, StateClosed) ELSE c
          [] OTHER -> cb

onFailure(cb) ==
    LET c == [cb EXCEPT !.consecutiveFailures = cb.consecutiveFailures + 1]
    IN  CASE cb.state = StateClosed ->
                IF ReadyToTrip(c) THEN setState(c, StateOpen) ELSE c
          [] cb.state = StateHalfOpen -> setState(cb, StateOpen)
          [] OTHER -> cb

\* beforeRequest: the breaker after the admission decision, and the error
beforeRequest(cb) ==
    LET c == currentState(cb)
    IN  CASE c.state = StateOpen -> [cb |-> c, err |-> ErrOpenState]
          [] c.state = StateHalfOpen /\ c.requests >= MaxRequests ->
                [cb |-> c, err |-> ErrTooManyRequests]
          [] OTHER -> [cb |-> onRequest(c), err |-> NoErr]

\* afterRequest, the request having been admitted at the same instant
afterRequest(cb, success) ==
    LET c == currentState(cb)
    IN  IF success THEN onSuccess(c) ELSE onFailure(c)

\* CircuitBreaker.Execute(req): fnErr is the error req returns when invoked
\* (isSuccessful is the default, err == nil)
Execute(cb, fnErr) ==
    LET b == beforeRequest(cb)
    IN  IF b.err # NoErr
        THEN [cb |-> b.cb, mid |-> b.cb, invoked |-> FALSE, err |-> b.err]
        ELSE [cb |-> afterRequest(b.cb, fnErr = NoErr), mid |-> b.cb,
              invoked |-> TRUE, err |-> fnErr]

\* RedisClient.ExecuteWithCircuitBreaker on receiver r (nil or not)
ExecuteWithCircuitBreaker(rNil, cb, fnErr) ==
    IF rNil
    THEN [cb |-> cb, mid |-> cb, invoked |-> FALSE, err |-> ErrRedisUnavailable]
    ELSE Execute(cb, fnErr)


(***************************************************************************)
(* Session records and their JSON form (encoding/json on SessionData).     *)
(* A Go string is a sequence of one-character strings; the marshalled      *)
(* bytes are a sequence of tokens: the structural tokens, the member keys  *)
(* and literals as single tokens, and the characters of string values one  *)
(* by one, escaped as encoding/json escapes them.                          *)
(***************************************************************************)
\* model.User values the callers pass (ID, Name, Email, Role, VerifiedEmail)
UserModels ==
    { [ID |-> <<"u", "1">>, Name |-> <<"a">>, Email |-> <<"a", "@", "x">>,
       Role |-> <<"u", "s", "e", "r">>, VerifiedEmail |-> FALSE],
      [ID |-> <<"u", "1">>, Name |-> <<"<", "\"", "\\">>, Email |-> <<"b", "@", "x">>,
       Role |-> <<"a", "d", "m", "i", "n">>, VerifiedEmail |-> TRUE] }

\* the subject a model.User belongs to
SubjectOf(user) == IF user.ID = <<"u", "1">> THEN "u1" ELSE "u2"

\* base64.URLEncoding.EncodeToString: length of the encoding of n bytes
EncodedLen(n) == ((n + 2) \div 3) * 4

\* GenerateSessionID on random draw e (0: the entropy source failed)
GenerateSessionID(e) ==
    IF e = 0
    THEN [id |-> <<>>, err |-> ErrGenerate]
    ELSE [id |-> [i \in 1..EncodedLen(SessionIDBytes) |-> IF e = 1 THEN "A" ELSE "B"],
          err |-> NoErr]

RECURSIVE Flatten(_)
Flatten(ss) == IF ss = <<>> THEN <<>> ELSE Head(ss) \o Flatten(Tail(ss))

EscapeChar_Raw(c) == <<c>>

\* encoding/json string escaping (HTML-safe encoder)
EscapeChar(c) ==
    CASE c = "\"" -> <<"\\", "\"">>
      [] c = "\\" -> <<"\\", "\\">>
      [] c = "<"  -> <<"\\", "u", "0", "0", "3", "c">>
      [] OTHER    -> <<c>>

Quote(s) == <<"\"">> \o Flatten([i \in 1..Len(s) |-> EscapeChar(s[i])]) \o <<"\"">>

BoolLit(b) == IF b THEN <<"true">> ELSE <<"false">>

\* json.Marshal(sessionData)
Marshal(d) ==
    <<"{", "id:">> \o Quote(d.ID)
    \o <<",", "name:">> \o Quote(d.Name)
    \o <<",", "email:">> \o Quote(d.Email)
    \o <<",", "role:">> \o Quote(d.Role)
    \o <<",", "verified_email:">> \o BoolLit(d.VerifiedEmail)
    \o <<",", "session_id:">> \o Quote(d.SessionID)
    \o <<",", "created_at:">> \o <<"0">>
    \o <<"}">>

\* a JSON string literal starting at b[i]: [ok, val, next]
RECURSIVE ReadChars(_, _, _)
ReadChars(b, i, acc) ==
    CASE i > Len(b) -> [ok |-> FALSE, val |-> <<>>, next |-> i]
      [] b[i] = "\"" -> [ok |-> TRUE, val |-> acc, next |-> i + 1]
      [] b[i] = "\\" ->
            IF i + 1 <= Len(b) /\ b[i + 1] \in {"\"", "\\"}
            THEN ReadChars(b, i + 2, Append(acc, b[i + 1]))
            ELSE IF i + 5 <= Len(b) /\ SubSeq(b, i + 1, i + 5) = <<"u", "0", "0", "3", "c">>
                 THEN ReadChars(b, i + 6, Append(acc, "<"))
                 ELSE [ok |-> FALSE, val |-> <<>>, next |-> i]
      [] OTHER -> ReadChars(b, i + 1, Append(acc, b[i]))

ReadString(b, i) ==
    IF i <= Len(b) /\ b[i] = "\""
    THEN ReadChars(b, i + 1, <<>>)
    ELSE [ok |-> FALSE, val |-> <<>>, next |-> i]

\* the tokens ts at b[i..]
Expect(b, i, ts) == i + Len(ts) - 1 <= Len(b) /\ SubSeq(b, i, i + Len(ts) - 1) = ts

ZeroSessionData ==
    [ID |-> <<>>, Name |-> <<>>, Email |-> <<>>, Role |-> <<>>,
     VerifiedEmail |-> FALSE, SessionID |-> <<>>]

\* json.Unmarshal(data, &sessionData) on the payloads this model stores:
\* [ok, data]; ok is FALSE on a syntax error
Unmarshal(b) ==
    LET bad == [ok |-> FALSE, data |-> ZeroSessionData]
        id  == ReadString(b, 3)
        nm  == ReadString(b, id.next + 2)
        em  == ReadString(b, nm.next + 2)
        ro  == ReadString(b, em.next + 2)
        vp  == ro.next + 2
        sid == ReadString(b, vp + 3)
    IN  IF ~Expect(b, 1, <<"{", "id:">>) \/ ~id.ok THEN bad
        ELSE IF ~Expect(b, id.next, <<",", "name:">>) \/ ~nm.ok THEN bad
        ELSE IF ~Expect(b, nm.next, <<",", "email:">>) \/ ~em.ok THEN bad
        ELSE IF ~Expect(b, em.next, <<",", "role:">>) \/ ~ro.ok THEN bad
        ELSE IF ~Expect(b, ro.next, <<",", "verified_email:">>) THEN bad
        ELSE IF ~(Expect(b, vp, <<"true">>) \/ Expect(b, vp, <<"false">>)) THEN bad
        ELSE IF ~Expect(b, vp + 1, <<",", "session_id:">>) \/ ~sid.ok THEN bad
        ELSE IF ~Expect(b, sid.next, <<",", "created_at:", "0", "}">>) THEN bad
        ELSE IF Len(b) # sid.next + 3 THEN bad
        ELSE [ok |-> TRUE,
              data |-> [ID |-> id.val, Name |-> nm.val, Email |-> em.val,
                        Role |-> ro.val, VerifiedEmail |-> (b[vp] = "true"),
                        SessionID |-> sid.val]]

\* the SessionData CacheUserSession builds from user and sessionID
NewSessionData(user, sessionID) ==
    [ID |-> user.ID, Name |-> user.Name, Email |-> user.Email, Role |-> user.Role,
     VerifiedEmail |-> user.VerifiedEmail, SessionID |-> sessionID]

\* a payload that is not valid JSON (a truncated document)
Malformed == <<"{">>

(***************************************************************************)
(* The response cache's key generator (middleware/cache/keygen.go).  A Go  *)
(* string is here a sequence of bytes.                                     *)
(***************************************************************************)
\* "api:response:"
CacheKeyPrefix == <<97, 112, 105, 58, 114, 101, 115, 112, 111, 110, 115, 101, 58>>

\* the bytes of ':', '?', '&', '=', ';', '%', '+', ' ', '/'
Colon == 58
Question == 63
Amp == 38
Equals == 61
Semicolon == 59
Percent == 37
Plus == 43
Space == 32
Slash == 47

Range(f) == {f[i] : i \in DOMAIN f}

\* strings.Cut(s, sep) for a one-byte separator
Cut(str, sep) ==
    IF sep \notin Range(str)
    THEN [before |-> str, after |-> <<>>]
    ELSE LET i == CHOOSE k \in 1..Len(str) :
                     str[k] = sep /\ \A j \in 1..(k - 1) : str[j] # sep
         IN  [before |-> SubSeq(str, 1, i - 1), after |-> SubSeq(str, i + 1, Len(str))]

\* net/url: ishex, unhex, and the upper-case hex digits of escape
IsHex(b) == b \in (48..57) \cup (65..70) \cup (97..102)

UnHex(b) == IF b \in 48..57 THEN b - 48 ELSE IF b \in 97..102 THEN b - 87 ELSE b - 55

UpperHex(n) == IF n < 10 THEN 48 + n ELSE 55 + n

\* net/url shouldEscape in query-component mode: false for unreserved bytes
Unreserved(b) == b \in (48..57) \cup (65..90) \cup (97..122) \cup {45, 95, 46, 126}

\* url.QueryUnescape: [ok, val]
RECURSIVE Unescape(_, _)
Unescape(str, acc) ==
    CASE str = <<>> -> [ok |-> TRUE, val |-> acc]
      [] str[1] = Percent ->
            IF Len(str) >= 3 /\ IsHex(str[2]) /\ IsHex(str[3])
            THEN Unescape(SubSeq(str, 4, Len(str)),
                          Append(acc, 16 * UnHex(str[2]) + UnHex(str[3])))
            ELSE [ok |-> FALSE, val |-> <<>>]
      [] str[1] = Plus -> Unescape(Tail(str), Append(acc, Space))
      [] OTHER -> Unescape(Tail(str), Append(acc, str[1]))

QueryUnescape(str) == Unescape(str, <<>>)

EscapeByte(b) ==
    CASE b = Space -> <<Plus>>
      [] Unreserved(b) -> <<b>>
      [] OTHER -> <<Percent, UpperHex(b \div 16), UpperHex(b % 16)>>

\* url.QueryEscape
QueryEscape(str) == Flatten([i \in 1..Len(str) |-> EscapeByte(str[i])])

\* url.ParseQuery: [ok, pairs], the pairs in their order of appearance; ok is
\* FALSE when some part has a semicolon or a bad escape (the part is dropped)
RECURSIVE ParseParts(_, _, _)
ParseParts(query, pairs, ok) ==
    IF query = <<>> THEN [ok |-> ok, pairs |-> pairs]
    ELSE LET c == Cut(query, Amp)
             kv == Cut(c.before, Equals)
             k == QueryUnescape(kv.before)
             v == QueryUnescape(kv.after)
         IN  IF Semicolon \in Range(c.before) THEN ParseParts(c.after, pairs, FALSE)
             ELSE IF c.before = <<>> THEN ParseParts(c.after, pairs, ok)
             ELSE IF ~k.ok \/ ~v.ok THEN ParseParts(c.after, pairs, FALSE)
             ELSE ParseParts(c.after, Append(pairs, [name |-> k.val, value |-> v.val]), ok)

ParseQuery(query) == ParseParts(query, <<>>, TRUE)

\* a < b as Go compares strings
RECURSIVE Less(_, _)
Less(a, b) ==
    CASE b = <<>> -> FALSE
      [] a = <<>> -> TRUE
      [] a[1] # b[1] -> a[1] < b[1]
      [] OTHER -> Less(Tail(a), Tail(b))

\* sort.Strings on a set of names
RECURSIVE SortStrings(_)
SortStrings(names) ==
    IF names = {} THEN <<>>
    ELSE LET least == CHOOSE n \in names : \A o \in names \ {n} : Less(n, o)
         IN  <<least>> \o SortStrings(names \ {least})

\* strings.Join(parts, sep) for a one-byte separator
RECURSIVE Join(_, _)
Join(parts, sep) ==
    IF parts = <<>> THEN <<>>
    ELSE IF Len(parts) = 1 THEN parts[1]
    ELSE parts[1] \o <<sep>> \o Join(Tail(parts), sep)

\* the parts "name=QueryEscape(value)" of one name, in the order of appearance
RECURSIVE PartsOf(_, _)
PartsOf(name, pairs) ==
    IF pairs = <<>> THEN <<>>
    ELSE (IF pairs[1].name = name
          THEN << name \o <<Equals>> \o QueryEscape(pairs[1].value) >>
          ELSE <<>>) \o PartsOf(name, Tail(pairs))

\* sortQueryParams
sortQueryParams(queryString) ==
    IF queryString = <<>> THEN <<>>
    ELSE LET params == ParseQuery(queryString)
             names == SortStrings({params.pairs[i].name : i \in DOMAIN params.pairs})
         IN  IF ~params.ok THEN queryString
             ELSE Join(Flatten([i \in 1..Len(names) |-> PartsOf(names[i], params.pairs)]),
                       Amp)

\* strings.ReplaceAll(path, "//", "/"): one pass, left to right
RECURSIVE ReplaceDoubleSlash(_)
ReplaceDoubleSlash(path) ==
    IF Len(path) < 2 THEN path
    ELSE IF path[1] = Slash /\ path[2] = Slash
         THEN <<Slash>> \o ReplaceDoubleSlash(SubSeq(path, 3, Len(path)))
         ELSE <<path[1]>> \o ReplaceDoubleSlash(Tail(path))

\* strings.TrimSuffix(path, "/")
TrimSlash(path) ==
    IF path # <<>> /\ path[Len(path)] = Slash THEN SubSeq(path, 1, Len(path) - 1) ELSE path

normalizePath(path) == TrimSlash(ReplaceDoubleSlash(path))

\* fmt.Sprintf("%s%s:%s?%s", CacheKeyPrefix, method, normalizedPath, sortedQuery)
GenerateCacheKey(method, path, queryString) ==
    CacheKeyPrefix \o method \o <<Colon>> \o normalizePath(path) \o <<Question>>
    \o sortQueryParams(queryString)

\* shouldSkipCache's deny-list: "/login", "/register", "/auth/token",
\* "/auth/refresh"
skipPaths ==
    { <<47, 108, 111, 103, 105, 110>>,
      <<47, 114, 101, 103, 105, 115, 116, 101, 114>>,
      <<47, 97, 117, 116, 104, 47, 116, 111, 107, 101, 110>>,
      <<47, 97, 117, 116, 104, 47, 114, 101, 102, 114, 101, 115, 104>> }

\* strings.HasPrefix(str, prefix)
HasPrefix(str, prefix) ==
    Len(prefix) <= Len(str) /\ SubSeq(str, 1, Len(prefix)) = prefix

shouldSkipCache(path) == \E skipPath \in skipPaths : HasPrefix(path, skipPath)

\* "GET", "HEAD", "POST"
MethodGet == <<71, 69, 84>>
MethodHead == <<72, 69, 65, 68>>
MethodPost == <<80, 79, 83, 84>>

\* the Next function of the response cache's configuration: TRUE when the
\* request bypasses the cache; status is the response's status code when the
\* function is called
CacheNext(method, path, status) ==
    IF method # MethodGet /\ method # MethodHead THEN TRUE
    ELSE IF shouldSkipCache(path) THEN TRUE
    ELSE IF status >= 400 THEN TRUE
    ELSE FALSE

\* "rate_limit:user:" and "rate_limit:ip:"
RateUserPrefix ==
    <<114, 97, 116, 101, 95, 108, 105, 109, 105, 116, 58, 117, 115, 101, 114, 58>>
RateIPPrefix == <<114, 97, 116, 101, 95, 108, 105, 109, 105, 116, 58, 105, 112, 58>>

RateKey_ProxyLast(local, forwardedFor, cfIP, ip) ==
    IF local # <<>> THEN RateUserPrefix \o local[1]
    ELSE IF cfIP # <<>> THEN RateIPPrefix \o cfIP
    ELSE IF forwardedFor # <<>> THEN RateIPPrefix \o forwardedFor
    ELSE RateIPPrefix \o ip

\* the limiter's KeyGenerator: local is c.Locals("user_id") as a sequence of
\* length 0 for nil, else holding the value; the headers and the address are
\* strings
RateKey(local, forwardedFor, cfIP, ip) ==
    IF local # <<>> THEN RateUserPrefix \o local[1]
    ELSE IF forwardedFor # <<>> THEN RateIPPrefix \o forwardedFor
    ELSE IF cfIP # <<>> THEN RateIPPrefix \o cfIP
    ELSE RateIPPrefix \o ip

(***************************************************************************)
(* The rate limiter: the configuration NewRateLimiterMiddleware gives to    *)
(* fiber's limiter, and the sliding-window handler that configuration       *)
(* selects.  Durations are seconds.                                         *)
(***************************************************************************)
\* the RateLimiterConfig in force: max 5 and a window of 60 s in both profiles
RateLimit ==
    [Enabled |-> TRUE, DefaultMax |-> 5, DefaultWindow |-> 60, AuthMax |-> 5,
     AuthWindow |-> 60]

maxRequests_Default(cfg) == cfg.DefaultMax

\* Max: the higher of the two profiles
maxRequests(cfg) == IF cfg.DefaultMax > cfg.AuthMax THEN cfg.DefaultMax ELSE cfg.AuthMax

\* Expiration: the larger of the two profiles
windowDuration(cfg) ==
    IF cfg.DefaultWindow > cfg.AuthWindow THEN cfg.DefaultWindow ELSE cfg.AuthWindow

StatusTooManyRequests == 429
StatusBadRequest == 400

\* the handler's response statuses a limited request ends with
Statuses == {200, 500}

\* SkipSuccessfulRequests: true
SkipSuccessfulRequests == TRUE

\* the hit of a request whose response has this status is taken back
Skipped(status) == SkipSuccessfulRequests /\ status < StatusBadRequest

\* the limiter's entry of a key that storage does not hold: no window yet
NewEntry == [currHits |-> 0, prevHits |-> 0, set |-> FALSE, expIn |-> 0, ttl |-> 0]

NoEntries == [k \in {} |-> NewEntry]

\* manager.get(key): the stored entry, a new one when storage holds none or
\* does not answer
Lookup(entries, up, key) == IF up /\ key \in DOMAIN entries THEN entries[key] ELSE NewEntry

Put(f, k, v) == [x \in DOMAIN f \cup {k} |-> IF x = k THEN v ELSE f[x]]

\* manager.set(key, entry, ttl): lost when storage does not answer
Save(entries, up, key, e) == IF up THEN Put(entries, key, e) ELSE entries

\* the window of entry e at a request: opened at the first request, rotated
\* once its end has passed (expIn is the time left to the end, not positive
\* from the end on)
Rotate(e, window) ==
    IF ~e.set THEN [e EXCEPT !.set = TRUE, !.expIn = window]
    ELSE IF e.expIn <= 0
         THEN [e EXCEPT !.prevHits = e.currHits, !.currHits = 0,
                        !.expIn = IF 0 - e.expIn >= window THEN window
                                  ELSE window + e.expIn]
         ELSE e

\* the request is counted, the entry is kept until the end of the next window
Hit(e, window) ==
    [Rotate(e, window) EXCEPT !.currHits = @ + 1, !.ttl = Rotate(e, window).expIn + window]

\* the sliding-window rate: the previous window's hits weighted by the share
\* of the current window still to come, plus the current window's hits
Rate(e, window) == ((e.prevHits * e.expIn) \div window) + e.currHits

\* remaining < 0
LimitReached(e, max, window) == max - Rate(e, window) < 0

\* the hit of a skipped request is taken back
Unhit(e, window) == [e EXCEPT !.currHits = @ - 1, !.ttl = window]

\* the entries after d seconds: an entry leaves storage when its ttl is over
Aged(entries, d) ==
    [k \in {x \in DOMAIN entries : entries[x].ttl > d} |->
        [entries[k] EXCEPT !.expIn = @ - d, !.ttl = @ - d]]

\* per key, the window the specification counts in: its age and the requests
\* admitted in it; a request opens a new one when there is none or the last
\* one is over
Window(ref, key, window) ==
    IF key \in DOMAIN ref /\ ref[key].age < window THEN ref[key] ELSE [age |-> 0, n |-> 0]

AgedRef(ref, d, window) ==
    [k \in DOMAIN ref |-> [ref[k] EXCEPT !.age = IF @ + d > window THEN window ELSE @ + d]]

\* the request's locals: none set
NoLocals == [user |-> <<>>, user_id |-> <<>>]

\* c.Locals("user", user)
AuthLocals(user) == [NoLocals EXCEPT !.user = <<user>>]

(***************************************************************************)
(* The external store: key -> [present, bytes].  Keys are Go strings, that  *)
(* is, sequences of bytes.                                                 *)
(***************************************************************************)
\* "session:user:"
SessionKeyPrefix == <<115, 101, 115, 115, 105, 111, 110, 58, 117, 115, 101, 114, 58>>

\* the bytes of a subject identifier
UserBytes(userID) == IF userID = "u1" THEN <<117, 49>> ELSE <<117, 50>>

\* fmt.Sprintf("session:user:%s", userID)
SessionKey(userID) == SessionKeyPrefix \o UserBytes(userID)

\* the response-cache keys the store is seeded with: "api:response:GET:/users:?"
\* and "api:response:GET:/users/u1:?user:u1:"
ListKey ==
    <<97, 112, 105, 58, 114, 101, 115, 112, 111, 110, 115, 101, 58, 71, 69, 84, 58,
      47, 117, 115, 101, 114, 115, 58, 63>>
UserKey ==
    <<97, 112, 105, 58, 114, 101, 115, 112, 111, 110, 115, 101, 58, 71, 69, 84, 58,
      47, 117, 115, 101, 114, 115, 47, 117, 49, 58, 63, 117, 115, 101, 114, 58, 117,
      49, 58>>

ResponseKeys == {ListKey, UserKey}

\* "/v1/users": the users group under the /v1 group
UsersRoute == <<47, 118, 49, 47, 117, 115, 101, 114, 115>>

\* the list route and the route of a user
RoutePaths == {UsersRoute} \cup {UsersRoute \o <<Slash>> \o UserBytes(u) : u \in Users}

\* the keys the response cache stores the GET and HEAD responses of these
\* routes under
RouteKeys == {GenerateCacheKey(m, path, <<>>) : m \in {MethodGet, MethodHead}, path \in RoutePaths}

Keys == {SessionKey(u) : u \in Users} \cup ResponseKeys \cup RouteKeys

Absent == [present |-> FALSE, bytes |-> <<>>]

\* the bytes of '*'
Star == 42

\* the store's glob matching of MATCH patterns: '*' and '?' (the patterns of
\* this program use no classes and no escapes)
RECURSIVE Match(_, _)
Match(pattern, key) ==
    CASE pattern = <<>> -> key = <<>>
      [] pattern[1] = Star ->
            \/ Match(Tail(pattern), key)
            \/ key # <<>> /\ Match(pattern, Tail(key))
      [] key = <<>> -> FALSE
      [] pattern[1] = Question \/ pattern[1] = key[1] -> Match(Tail(pattern), Tail(key))
      [] OTHER -> FALSE

\* SCAN 0 MATCH pattern, iterated to the end: the keys collected
Scan(s, pattern) == {k \in DOMAIN s : s[k].present /\ Match(pattern, k)}

\* DEL keys...
StoreDelAll(s, keys) == [k \in DOMAIN s |-> IF k \in keys THEN Absent ELSE s[k]]

Entry(bytes) == [present |-> TRUE, bytes |-> bytes]

\* SET key value
StoreSet(s, key, bytes) == [s EXCEPT ![key] = Entry(bytes)]

StoreDel_Keep(s, key) == s

\* DEL key
StoreDel(s, key) == [s EXCEPT ![key] = Absent]

\* the error of GET key, the store being reachable or not
GetErr(s, up, key) ==
    CASE ~up -> ErrIO
      [] ~s[key].present -> RedisNil
      [] OTHER -> NoErr

\* the error of SET, DEL or PING
CmdErr(up) == IF up THEN NoErr ELSE ErrIO


(***************************************************************************)
(* State                                                                   *)
(***************************************************************************)
VARIABLES
    boot,            \* outcome of NewRedisClient: "disabled", "failed", "connected"
    redisAvailable,  \* the package's atomic flag, 0 or 1
    cb,              \* redisCB / RedisClient.circuitBreaker
    storeUp,         \* the external store answers commands
    store,           \* the external store's keys
    hm,              \* the HealthMonitor: phase and its own available flag
    last,            \* what the handler that ran last did and returned
    streak,          \* failed guarded calls in a row while CLOSED
    genStreak,       \* the same within the breaker's current counting interval
    trialOK,         \* successful trial calls since the breaker became HALF-OPEN
    sinceOpen,       \* seconds since the breaker became OPEN (saturating)
    invalidated,     \* per subject: InvalidateSession returned since the last write
    cached,          \* per subject: the user CacheUserSession wrote, still in place
    dbUp,            \* the database answers queries
    db,              \* the users table: per subject, the row (at most one)
    tasks,           \* goroutines Auth started that have not run yet
    pure,            \* a call of a pure function: its inputs and, once made, its results
    rl,              \* the rate limiter: its stored entries, and the windows counted in
    hist             \* per subject: the role the last successful role change replaced,
                     \* and whether DeleteUser has returned successfully since creation

vars == <<boot, redisAvailable, cb, storeUp, store, hm, last, streak, genStreak,
          trialOK, sinceOpen, invalidated, cached, dbUp, db, tasks, pure, rl,
          hist>>

\* the state of the application above the cache
appVars == <<dbUp, db, tasks>>

\* the calls of pure functions
pureVars == <<pure>>

\* the rate limiter's state
limVars == <<rl>>

\* what the business operations have done so far
histVars == <<hist>>

\* no call of a pure function is under way
NoCall == [fn |-> "none"]

\* the RedisClient reference NewRedisClient returned is nil
RedisClientNil == boot # "connected"

\* the package variable redisCB is set
HasCB == boot # "disabled"

\* gobreaker.NewCircuitBreaker(Settings{...}): CLOSED, first interval running
NewCircuitBreaker ==
    [state |-> StateClosed, requests |-> 0, consecutiveSuccesses |-> 0,
     consecutiveFailures |-> 0, expiryZero |-> FALSE, expiryIn |-> Interval]

IsAvailable_FlagOnly(flag, hasCB, c) == [ok |-> flag # 0, cb |-> c]

\* IsAvailable(): the answer, and the breaker after State() has looked at it
IsAvailable(flag, hasCB, c) ==
    IF flag = 0 THEN [ok |-> FALSE, cb |-> c]
    ELSE IF hasCB /\ currentState(c).state = StateOpen
         THEN [ok |-> FALSE, cb |-> currentState(c)]
         ELSE [ok |-> TRUE, cb |-> IF hasCB THEN currentState(c) ELSE c]

\* HealthMonitor.IsAvailable()
HMIsAvailable(h) == h.available

\* a guarded call that was not made
NoExec(c) == [cb |-> c, mid |-> c, invoked |-> FALSE, err |-> NoErr]

NoLast ==
    [op |-> "none", user |-> "", flag |-> 0, seen |-> "-", execs |-> 0,
     invoked |-> FALSE, storeCalls |-> 0, storeChanged |-> FALSE,
     innerErr |-> NoErr, err |-> NoErr, rec |-> <<>>, trans |-> <<>>,
     openFor |-> 0, inv |-> "no", cachedBefore |-> <<>>,
     genErr |-> NoErr, wrote |-> FALSE,
     status |-> "-", dbOK |-> FALSE, dbCalls |-> 0, spawned |-> 0,
     attached |-> <<>>, hit |-> FALSE, cacheErrs |-> 0, cookie |-> <<>>,
     token |-> "-", notified |-> 0, flipped |-> FALSE,
     pattern |-> <<>>, scanned |-> {}, dels |-> 0, delKeys |-> {}, delErr |-> NoErr,
     errs |-> <<>>, planned |-> 0,
     key |-> <<>>, code |-> 0, inWindow |-> 0, authed |-> <<>>,
     attrs |-> FALSE, expected |-> 0, fromCache |-> FALSE]

Trans(a, b) == IF a.state = b.state THEN <<>> ELSE << <<a.state, b.state>> >>

\* the bookkeeping every handler shares: c0 the breaker it found, x the guarded
\* call it made (NoExec when it made none)
Rolled(c0, x) ==
    c0.state = StateClosed /\ x.mid.state = StateClosed /\ Expired(c0) /\ ~Expired(x.mid)

CountFail(n, c0, x) ==
    IF x.invoked /\ x.mid.state = StateClosed
    THEN IF x.err = NoErr THEN 0 ELSE Min(n + 1, MaxStreak)
    ELSE IF x.mid.state # StateClosed THEN 0 ELSE n

\* the cache as a handler finds it: the breaker with its bookkeeping, the store
W ==
    [cb |-> cb, streak |-> streak, genStreak |-> genStreak, trialOK |-> trialOK,
     sinceOpen |-> sinceOpen, store |-> store, invalidated |-> invalidated,
     cached |-> cached]

\* w after the guarded call x
TrackW(w, x) ==
    [w EXCEPT
       !.cb = x.cb,
       !.streak = CountFail(w.streak, w.cb, x),
       !.genStreak = CountFail(IF Rolled(w.cb, x) THEN 0 ELSE w.genStreak, w.cb, x),
       !.trialOK =
          LET t0 == IF w.cb.state = StateOpen /\ x.mid.state = StateHalfOpen
                    THEN 0 ELSE w.trialOK
          IN  IF x.cb.state = StateOpen THEN 0
              ELSE IF x.invoked /\ x.mid.state = StateHalfOpen /\ x.err = NoErr
                   THEN t0 + 1 ELSE t0,
       !.sinceOpen = IF x.cb.state = StateOpen /\ x.mid.state = StateOpen
                     THEN w.sinceOpen ELSE 0]

Track(c0, x) ==
    LET w == TrackW([W EXCEPT !.cb = c0], x)
    IN  /\ cb' = w.cb
        /\ streak' = w.streak
        /\ genStreak' = w.genStreak
        /\ trialOK' = w.trialOK
        /\ sinceOpen' = w.sinceOpen

\* the handler leaves the cache as w
Settle(w) ==
    /\ cb' = w.cb
    /\ streak' = w.streak
    /\ genStreak' = w.genStreak
    /\ trialOK' = w.trialOK
    /\ sinceOpen' = w.sinceOpen
    /\ store' = w.store
    /\ invalidated' = w.invalidated
    /\ cached' = w.cached

\* the part of `last` every handler fills the same way
Did(op, user, c0, a, x, made) ==
    [NoLast EXCEPT !.op = op, !.user = user, !.flag = redisAvailable,
                   !.seen = IF made THEN x.mid.state
                            ELSE IF redisAvailable = 0 THEN "-" ELSE a.cb.state,
                   !.execs = IF made THEN 1 ELSE 0,
                   !.invoked = x.invoked,
                   !.storeCalls = IF x.invoked THEN 1 ELSE 0,
                   !.innerErr = x.err,
                   !.trans = Trans(c0, x.mid) \o Trans(x.mid, x.cb),
                   !.openFor = sinceOpen]

InitCache ==
    /\ boot \in {"disabled", "failed", "connected"}
    /\ redisAvailable = IF boot = "connected" THEN 1 ELSE 0
    /\ cb = NewCircuitBreaker
    /\ storeUp \in (IF boot = "disabled" THEN BOOLEAN ELSE {boot = "connected"})
    /\ store = [k \in Keys |-> Absent]
    /\ hm = [phase |-> IF boot = "connected" THEN "new" ELSE "absent", available |-> FALSE,
             cancelled |-> FALSE, stop |-> "none"]
    /\ last = NoLast
    /\ streak = 0
    /\ genStreak = 0
    /\ trialOK = 0
    /\ sinceOpen = 0
    /\ invalidated = [u \in Users |-> "no"]
    /\ cached = [u \in Users |-> <<>>]
    /\ dbUp = TRUE
    /\ db = [u \in Users |-> <<>>]
    /\ tasks = <<>>
    /\ rl = [entries |-> NoEntries, ref |-> NoEntries]
    /\ hist = [u \in Users |-> [superseded |-> <<>>, deleted |-> FALSE]]

Init == InitCache /\ pure = NoCall

(***************************************************************************)
(* The environment: time, the store's reachability, TTL expiry, and a      *)
(* foreign writer leaving a payload that is not a session record.          *)
(***************************************************************************)
Tick(d) ==
    /\ cb' = [cb EXCEPT !.expiryIn = IF cb.expiryZero THEN @
                                     ELSE IF @ - d < 0 THEN 0 - 1 ELSE @ - d]
    /\ sinceOpen' = IF cb.state = StateOpen THEN Min(sinceOpen + d, 2 * Timeout) ELSE sinceOpen
    /\ rl' = [entries |-> Aged(rl.entries, d),
              ref |-> AgedRef(rl.ref, d, windowDuration(RateLimit))]
    /\ last' = NoLast
    /\ UNCHANGED <<boot, redisAvailable, storeUp, store, hm, streak, genStreak, trialOK,
                   invalidated, cached>>
    /\ UNCHANGED appVars
    /\ UNCHANGED <<pureVars, histVars>>

StoreFlip ==
    /\ storeUp' = ~storeUp
    /\ last' = NoLast
    /\ UNCHANGED <<boot, redisAvailable, cb, store, hm, streak, genStreak, trialOK,
                   sinceOpen, invalidated, cached>>
    /\ UNCHANGED appVars
    /\ UNCHANGED <<pureVars, limVars, histVars>>

Expire(u) ==
    /\ store[SessionKey(u)].present
    /\ store' = StoreDel(store, SessionKey(u))
    /\ cached' = [cached EXCEPT ![u] = <<>>]
    /\ last' = NoLast
    /\ UNCHANGED <<boot, redisAvailable, cb, storeUp, hm, streak, genStreak, trialOK,
                   sinceOpen, invalidated>>
    /\ UNCHANGED appVars
    /\ UNCHANGED <<pureVars, limVars, histVars>>

CorruptEntry(u) ==
    /\ storeUp
    /\ store[SessionKey(u)] # Entry(Malformed)
    /\ store' = StoreSet(store, SessionKey(u), Malformed)
    /\ cached' = [cached EXCEPT ![u] = <<>>]
    /\ invalidated' = [invalidated EXCEPT ![u] = "no"]
    /\ last' = NoLast
    /\ UNCHANGED <<boot, redisAvailable, cb, storeUp, hm, streak, genStreak, trialOK,
                   sinceOpen>>
    /\ UNCHANGED appVars
    /\ UNCHANGED <<pureVars, limVars, histVars>>

(***************************************************************************)
(* Health probes                                                           *)
(***************************************************************************)
\* startHealthMonitor, one tick of its ticker
PkgProbe ==
    /\ boot = "connected"
    /\ redisAvailable' = IF CmdErr(storeUp) # NoErr THEN 0
                         ELSE IF redisAvailable = 0 THEN 1 ELSE redisAvailable
    /\ last' = [NoLast EXCEPT !.op = "Probe", !.innerErr = CmdErr(storeUp)]
    /\ UNCHANGED <<boot, cb, storeUp, store, hm, streak, genStreak, trialOK, sinceOpen,
                   invalidated, cached>>
    /\ UNCHANGED appVars
    /\ UNCHANGED <<pureVars, limVars, histVars>>

\* HealthMonitor.checkHealth: a PING under a context derived from the monitor's
\* own, which fails once that context is cancelled
checkHealth(h, up) == ~h.cancelled /\ CmdErr(up) = NoErr

\* the callbacks a probe makes: Start's initial check calls onStateChange
\* whatever the outcome, a ticker probe only when the flag moved
Notify(initial, before, after) == IF initial \/ before # after THEN 1 ELSE 0

HMProbed(op, initial, after) ==
    [NoLast EXCEPT !.op = op, !.flipped = (hm.available # after),
                   !.notified = Notify(initial, hm.available, after)]

\* HealthMonitor.Start up to its loop: the initial check
HMStart ==
    /\ hm.phase = "new"
    /\ LET available == checkHealth(hm, storeUp)
       IN /\ hm' = [hm EXCEPT !.phase = "running", !.available = available]
          /\ last' = HMProbed("HMStart", TRUE, available)
    /\ UNCHANGED <<boot, redisAvailable, cb, storeUp, store, streak, genStreak, trialOK,
                   sinceOpen, invalidated, cached>>
    /\ UNCHANGED appVars
    /\ UNCHANGED <<pureVars, limVars, histVars>>

\* HealthMonitor.Start, one tick of its ticker
HMTick ==
    /\ hm.phase = "running"
    /\ LET available == checkHealth(hm, storeUp)
       IN /\ hm' = [hm EXCEPT !.available = available]
          /\ last' = HMProbed("HMTick", FALSE, available)
    /\ UNCHANGED <<boot, redisAvailable, cb, storeUp, store, streak, genStreak, trialOK,
                   sinceOpen, invalidated, cached>>
    /\ UNCHANGED appVars
    /\ UNCHANGED <<pureVars, limVars, histVars>>

\* HealthMonitor.Start, its loop finding the context done: it closes stopChan
\* and the goroutine ends
HMDone ==
    /\ hm.phase = "running" /\ hm.cancelled
    /\ hm' = [hm EXCEPT !.phase = "stopped"]
    /\ last' = [NoLast EXCEPT !.op = "HMDone"]
    /\ UNCHANGED <<boot, redisAvailable, cb, storeUp, store, streak, genStreak, trialOK,
                   sinceOpen, invalidated, cached>>
    /\ UNCHANGED appVars
    /\ UNCHANGED <<pureVars, limVars, histVars>>

\* HealthMonitor.Stop up to its receive: it cancels the context, then takes
\* from stopChan, at once when the channel is closed already
HMStop ==
    /\ hm.phase # "absent" /\ hm.stop # "waiting"
    /\ hm' = [hm EXCEPT !.cancelled = TRUE,
                        !.stop = IF hm.phase = "stopped" THEN "returned" ELSE "waiting"]
    /\ last' = [NoLast EXCEPT !.op = "HMStop"]
    /\ UNCHANGED <<boot, redisAvailable, cb, storeUp, store, streak, genStreak, trialOK,
                   sinceOpen, invalidated, cached>>
    /\ UNCHANGED appVars
    /\ UNCHANGED <<pureVars, limVars, histVars>>

\* HealthMonitor.Stop, its receive from stopChan once the channel is closed
HMStopped ==
    /\ hm.stop = "waiting" /\ hm.phase = "stopped"
    /\ hm' = [hm EXCEPT !.stop = "returned"]
    /\ last' = [NoLast EXCEPT !.op = "HMStopped"]
    /\ UNCHANGED <<boot, redisAvailable, cb, storeUp, store, streak, genStreak, trialOK,
                   sinceOpen, invalidated, cached>>
    /\ UNCHANGED appVars
    /\ UNCHANGED <<pureVars, limVars, histVars>>


(***************************************************************************)
(* Handlers                                                                *)
(***************************************************************************)
\* a caller of RedisClient.ExecuteWithCircuitBreaker with an operation of its
\* own (one store command); the receiver is nil when construction gave none
ExecGuarded ==
    LET x == ExecuteWithCircuitBreaker(RedisClientNil, cb, CmdErr(storeUp))
    IN  /\ Track(cb, x)
        /\ last' = [Did("Exec", "", cb, NoExec(cb), x, TRUE) EXCEPT !.err = x.err]
        /\ UNCHANGED <<boot, redisAvailable, storeUp, store, hm, invalidated, cached>>
        /\ UNCHANGED appVars
        /\ UNCHANGED <<pureVars, limVars, histVars>>

CacheResult_Swallow(xerr) == IF xerr = ErrIO THEN NoErr ELSE xerr

\* CacheUserSession: what it returns for the guarded write's error
CacheResult(xerr) == IF xerr # NoErr THEN ErrCacheWrite ELSE NoErr

\* sessionService.CacheUserSession(ctx, userID, user) on the cache w, e the
\* random draw: the cache it leaves, and what it did and returned
CacheUserSessionIn(w, userID, user, e) ==
    LET a   == IsAvailable(redisAvailable, HasCB, w.cb)
        gen == GenerateSessionID(e)
        go  == a.ok /\ gen.err = NoErr
        x   == IF go THEN ExecuteWithCircuitBreaker(RedisClientNil, a.cb, CmdErr(storeUp))
               ELSE NoExec(a.cb)
        written == go /\ x.invoked /\ x.err = NoErr
        err == IF ~a.ok THEN NoErr
               ELSE IF gen.err # NoErr THEN ErrGenerate
               ELSE CacheResult(x.err)
    IN  [w |-> [TrackW(w, x) EXCEPT
                  !.store = IF written
                            THEN StoreSet(w.store, SessionKey(userID),
                                          Marshal(NewSessionData(user, gen.id)))
                            ELSE w.store,
                  !.cached = [w.cached EXCEPT ![userID] = IF written THEN <<user>> ELSE <<>>],
                  !.invalidated = [w.invalidated EXCEPT ![userID] = "no"]],
         a |-> a, x |-> x, made |-> go, written |-> written, gen |-> gen, err |-> err]

\* sessionService.CacheUserSession(ctx, userID, user), e the random draw
CacheUserSession(userID, user, e) ==
    \E r \in {CacheUserSessionIn(W, userID, user, e)} :
        /\ boot = "connected"
        /\ Settle(r.w)
        /\ last' = [Did("Cache", userID, cb, r.a, r.x, r.made) EXCEPT
                       !.err = r.err, !.storeChanged = (store' # store),
                       !.genErr = IF r.a.ok THEN r.gen.err ELSE NoErr,
                       !.wrote = r.written]
        /\ UNCHANGED <<boot, redisAvailable, storeUp, hm>>
        /\ UNCHANGED appVars
        /\ UNCHANGED <<pureVars, limVars, histVars>>

\* the closure GetUserSession hands to the breaker: GET, every error a miss
GetClosureErr(s, up, key) == IF GetErr(s, up, key) # NoErr THEN ErrCacheMiss ELSE NoErr

\* GetUserSession: what it returns for the guarded read's error and bytes
GetResult(xerr, bytes) ==
    LET um == Unmarshal(bytes)
    IN  IF xerr # NoErr THEN [rec |-> <<>>, err |-> ErrCacheMiss]
        ELSE IF ~um.ok THEN [rec |-> <<>>, err |-> ErrUnmarshal]
        ELSE [rec |-> <<um.data>>, err |-> NoErr]

\* sessionService.GetUserSession(ctx, userID) on the cache w
GetUserSessionIn(w, userID) ==
    LET a == IsAvailable(redisAvailable, HasCB, w.cb)
        key == SessionKey(userID)
        x == IF a.ok
             THEN ExecuteWithCircuitBreaker(RedisClientNil, a.cb,
                                            GetClosureErr(w.store, storeUp, key))
             ELSE NoExec(a.cb)
        res == IF a.ok THEN GetResult(x.err, w.store[key].bytes)
               ELSE [rec |-> <<>>, err |-> ErrCacheMiss]
    IN  [w |-> TrackW(w, x), a |-> a, x |-> x, made |-> a.ok,
         rec |-> res.rec, err |-> res.err]

\* sessionService.GetUserSession(ctx, userID)
GetUserSession(userID) ==
    \E r \in {GetUserSessionIn(W, userID)} :
        /\ boot = "connected"
        /\ Settle(r.w)
        /\ last' = [Did("Get", userID, cb, r.a, r.x, r.made) EXCEPT
                       !.err = r.err, !.rec = r.rec,
                       !.inv = invalidated[userID], !.cachedBefore = cached[userID]]
        /\ UNCHANGED <<boot, redisAvailable, storeUp, hm>>
        /\ UNCHANGED appVars
        /\ UNCHANGED <<pureVars, limVars, histVars>>

InvalidateResult_Propagate(xerr) == xerr

\* InvalidateSession: what it returns for the guarded delete's error
InvalidateResult(xerr) == IF xerr # NoErr THEN NoErr ELSE NoErr

\* sessionService.InvalidateSession(ctx, userID) on the cache w
InvalidateSessionIn(w, userID) ==
    LET a == IsAvailable(redisAvailable, HasCB, w.cb)
        x == IF a.ok THEN ExecuteWithCircuitBreaker(RedisClientNil, a.cb, CmdErr(storeUp))
             ELSE NoExec(a.cb)
        deleted == a.ok /\ x.invoked /\ x.err = NoErr
    IN  [w |-> [TrackW(w, x) EXCEPT
                  !.store = IF deleted THEN StoreDel(w.store, SessionKey(userID))
                            ELSE w.store,
                  !.cached = [w.cached EXCEPT ![userID] = <<>>],
                  !.invalidated = [w.invalidated EXCEPT ![userID] =
                                      IF deleted \/ @ = "deleted" THEN "deleted"
                                      ELSE "returned"]],
         a |-> a, x |-> x, made |-> a.ok, deleted |-> deleted,
         err |-> IF a.ok THEN InvalidateResult(x.err) ELSE NoErr]

\* sessionService.InvalidateSession(ctx, userID)
InvalidateSession(userID) ==
    \E r \in {InvalidateSessionIn(W, userID)} :
        /\ boot = "connected"
        /\ Settle(r.w)
        /\ last' = [Did("Invalidate", userID, cb, r.a, r.x, r.made) EXCEPT
                       !.err = r.err, !.storeChanged = (store' # store)]
        /\ UNCHANGED <<boot, redisAvailable, storeUp, hm>>
        /\ UNCHANGED appVars
        /\ UNCHANGED <<pureVars, limVars, histVars>>


(***************************************************************************)
(* The source of record (gorm).  The users table is state; of the tokens    *)
(* table, which no handler modelled here reads, only the statements'       *)
(* errors are kept.                                                        *)
(***************************************************************************)
ErrDB == "database error"
ErrNotFound == "User not found"

RoleUser == <<"u", "s", "e", "r">>
RoleAdmin == <<"a", "d", "m", "i", "n">>

\* the row CreateUser inserts for subject u1
NewRow ==
    [ID |-> <<"u", "1">>, Name |-> <<"a">>, Email |-> <<"a", "@", "x">>,
     Role |-> RoleUser, VerifiedEmail |-> FALSE]

\* new(model.User)
ZeroUser ==
    [ID |-> <<>>, Name |-> <<>>, Email |-> <<>>, Role |-> <<>>, VerifiedEmail |-> FALSE]

\* validation.UpdateUser bodies: a change of role, or of name only
UpdateRequests ==
    { [Name |-> <<>>, Role |-> RoleAdmin], [Name |-> <<"a">>, Role |-> <<>>] }

\* userService.GetUserByID: [user, err], user of length 0 for nil
GetUserByID(up, d, id) ==
    CASE ~up -> [user |-> <<ZeroUser>>, err |-> ErrDB]
      [] d[id] = <<>> -> [user |-> <<>>, err |-> ErrNotFound]
      [] OTHER -> [user |-> d[id], err |-> NoErr]

\* DB.Updates(updateBody): the non-zero fields of the body are written
Updates(row, req) ==
    [row EXCEPT !.Name = IF req.Name # <<>> THEN req.Name ELSE @,
                !.Role = IF req.Role # <<>> THEN req.Role ELSE @]

\* the model.User Auth builds from a cached SessionData
UserOf(sd) ==
    [ID |-> sd.ID, Name |-> sd.Name, Email |-> sd.Email, Role |-> sd.Role,
     VerifiedEmail |-> sd.VerifiedEmail]

DBFlip ==
    /\ dbUp' = ~dbUp
    /\ last' = NoLast
    /\ UNCHANGED <<boot, redisAvailable, cb, storeUp, store, hm, streak, genStreak,
                   trialOK, sinceOpen, invalidated, cached, db, tasks>>
    /\ UNCHANGED <<pureVars, limVars, histVars>>

\* userService.CreateUser with a valid body
CreateUser(u) ==
    LET ok == dbUp /\ db[u] = <<>>
    IN  /\ db' = IF ok THEN [db EXCEPT ![u] = <<NewRow>>] ELSE db
        /\ last' = [NoLast EXCEPT !.op = "CreateUser", !.user = u, !.dbCalls = 1,
                                  !.dbOK = ok,
                                  !.status = IF ok THEN "ok"
                                             ELSE IF dbUp THEN "409" ELSE "err"]
        /\ hist' = [hist EXCEPT ![u].deleted = IF ok THEN FALSE ELSE @]
        /\ UNCHANGED <<boot, redisAvailable, cb, storeUp, store, hm, streak, genStreak,
                       trialOK, sinceOpen, invalidated, cached, dbUp, tasks>>
        /\ UNCHANGED <<pureVars, limVars>>

(***************************************************************************)
(* The Auth middleware                                                     *)
(***************************************************************************)
\* the router passed a nil SessionService
NilSessionService == boot # "connected"

Spawn_Drop(ts, userID, user) == ts

\* go func() { sessionService.CacheUserSession(context.Background(), userID, user) }()
Spawn(ts, userID, user) == Append(ts, [userID |-> userID, user |-> user])

\* the request ends unauthenticated after the database query q
Unauthenticated(q) == q.err # NoErr \/ q.user = <<>>

\* Auth(userService, sessionService, requiredRights...) on a request whose
\* token is valid for userID or not; permitted is the outcome of the rights
\* check of lines 65-70
Auth(userID, valid, permitted) ==
    LET q == GetUserByID(dbUp, db, userID)
        done == IF permitted THEN "next" ELSE "403"
        base == [NoLast EXCEPT !.op = "Auth", !.user = userID,
                               !.token = IF valid THEN "valid" ELSE "invalid"]
    IN  \/ /\ ~valid
           /\ last' = [base EXCEPT !.status = "401"]
           /\ UNCHANGED <<cb, streak, genStreak, trialOK, sinceOpen, store, invalidated,
                          cached, tasks>>
        \/ /\ valid /\ NilSessionService
           /\ last' = [base EXCEPT !.status = "panic"]
           /\ UNCHANGED <<cb, streak, genStreak, trialOK, sinceOpen, store, invalidated,
                          cached, tasks>>
        \/ /\ valid /\ ~NilSessionService
           /\ \E r \in {GetUserSessionIn(W, userID)} :
                LET hit == r.err = NoErr /\ r.rec # <<>>
                    user == IF hit THEN <<UserOf(r.rec[1])>> ELSE q.user
                    did == [Did("Auth", userID, cb, r.a, r.x, r.made) EXCEPT
                               !.token = "valid", !.err = r.err]
                IN  \/ /\ hit
                       /\ Settle(r.w)
                       /\ last' = [did EXCEPT !.rec = r.rec, !.hit = TRUE,
                                              !.attached = user, !.status = done]
                       /\ UNCHANGED tasks
                    \/ /\ ~hit /\ Unauthenticated(q)
                       /\ Settle(r.w)
                       /\ last' = [did EXCEPT !.dbCalls = 1, !.status = "401"]
                       /\ UNCHANGED tasks
                    \/ /\ ~hit /\ ~Unauthenticated(q)
                       /\ Len(tasks) < MaxTasks
                       /\ Settle(r.w)
                       /\ tasks' = Spawn(tasks, userID, user[1])
                       /\ last' = [did EXCEPT !.dbCalls = 1, !.dbOK = TRUE,
                                              !.spawned = Len(tasks') - Len(tasks),
                                              !.attached = user, !.status = done]

\* the request as a whole: nothing else moves
AuthRequest(userID, valid, permitted) ==
    /\ Auth(userID, valid, permitted)
    /\ UNCHANGED <<boot, redisAvailable, storeUp, hm, dbUp, db>>
    /\ UNCHANGED <<pureVars, limVars, histVars>>

\* the goroutine Auth started runs: CacheUserSession on the user it captured
Populate(i, e) ==
    \E t \in {tasks[i]} : \E r \in {CacheUserSessionIn(W, t.userID, t.user, e)} :
        /\ Settle(r.w)
        /\ tasks' = SubSeq(tasks, 1, i - 1) \o SubSeq(tasks, i + 1, Len(tasks))
        /\ last' = [Did("Populate", t.userID, cb, r.a, r.x, r.made) EXCEPT
                       !.err = r.err, !.wrote = r.written]
        /\ UNCHANGED <<boot, redisAvailable, storeUp, hm, dbUp, db>>
        /\ UNCHANGED <<pureVars, limVars, histVars>>

(***************************************************************************)
(* Business operations that touch the session cache                        *)
(***************************************************************************)
\* a session-layer call that did not do its work: it returned an error, or
\* made no store call, or its store call failed
Troubled(r) == r.err # NoErr \/ ~r.x.invoked \/ r.x.err # NoErr

Count(b) == IF b THEN 1 ELSE 0

BusinessOps == {"UpdateUser", "DeleteUser", "DeleteToken", "GenerateAuthTokens"}

\* userService.UpdateUser(c, req, id) with a valid body; e1 is the draw of
\* rand.Read at line 191, e2 the draw inside CacheUserSession
UpdateUser(id, req, e1, e2) ==
    LET q0 == GetUserByID(dbUp, db, id)
        roleChanged == req.Role # <<>> /\ req.Role # q0.user[1].Role
        row == Updates(q0.user[1], req)
        newSessionID == GenerateSessionID(e1)
        base == [NoLast EXCEPT !.op = "UpdateUser", !.user = id]
    IN  \/ /\ q0.err # NoErr
           /\ last' = [base EXCEPT !.dbCalls = 1,
                                   !.status = IF dbUp THEN "404" ELSE "err"]
           /\ UNCHANGED <<cb, streak, genStreak, trialOK, sinceOpen, store, invalidated,
                          cached, db>>
        \/ /\ q0.err = NoErr /\ NilSessionService
           /\ db' = [db EXCEPT ![id] = <<row>>]
           /\ last' = [base EXCEPT !.dbCalls = 3, !.dbOK = TRUE, !.status = "ok",
                                   !.attached = <<row>>]
           /\ UNCHANGED <<cb, streak, genStreak, trialOK, sinceOpen, store, invalidated,
                          cached>>
        \/ /\ q0.err = NoErr /\ ~NilSessionService
           /\ db' = [db EXCEPT ![id] = <<row>>]
           /\ \E inv \in {InvalidateSessionIn(W, id)} :
                LET did == Did("UpdateUser", id, cb, inv.a, inv.x, inv.made)
                IN  \/ /\ ~roleChanged
                       /\ Settle(inv.w)
                       /\ last' = [did EXCEPT
                                      !.dbCalls = 3, !.dbOK = TRUE, !.status = "ok",
                                      !.attached = <<row>>,
                                      !.cacheErrs = Count(Troubled(inv))]
                    \/ /\ roleChanged /\ newSessionID.err # NoErr
                       /\ Settle(inv.w)
                       /\ last' = [did EXCEPT
                                      !.dbCalls = 2, !.dbOK = TRUE, !.status = "500",
                                      !.genErr = newSessionID.err,
                                      !.cacheErrs = 1 + Count(Troubled(inv))]
                    \/ /\ roleChanged /\ newSessionID.err = NoErr
                       /\ \E put \in {CacheUserSessionIn(inv.w, id, row, e2)} :
                            /\ Settle(put.w)
                            /\ last' =
                                 [Did("UpdateUser", id, inv.w.cb, put.a, put.x, put.made)
                                  EXCEPT
                                    !.execs = Count(inv.made) + Count(put.made),
                                    !.storeCalls = Count(inv.x.invoked)
                                                   + Count(put.x.invoked),
                                    !.trans = Trans(cb, inv.x.mid)
                                              \o Trans(inv.x.mid, inv.x.cb)
                                              \o Trans(inv.x.cb, put.x.mid)
                                              \o Trans(put.x.mid, put.x.cb),
                                    !.dbCalls = 4, !.dbOK = TRUE, !.status = "ok",
                                    !.attached = <<row>>, !.wrote = put.written,
                                    !.cookie = <<newSessionID.id>>,
                                    !.cacheErrs = Count(Troubled(inv))
                                                  + Count(Troubled(put))]

\* the request as a whole; a role change that returned successfully is noted
UpdateUserRequest(id, req, e1, e2) ==
    /\ UpdateUser(id, req, e1, e2)
    /\ hist' = [hist EXCEPT ![id].superseded =
                   IF last'.status = "ok" /\ db'[id][1].Role # db[id][1].Role
                   THEN <<db[id][1].Role>> ELSE @]
    /\ UNCHANGED <<boot, redisAvailable, storeUp, hm, dbUp, tasks>>
    /\ UNCHANGED <<pureVars, limVars>>

\* userService.DeleteUser(c, id)
DeleteUser(id) ==
    LET found == dbUp /\ db[id] # <<>>
        base == [NoLast EXCEPT !.op = "DeleteUser", !.user = id, !.dbCalls = 1]
    IN  \/ /\ ~found
           /\ last' = [base EXCEPT !.status = "404"]
           /\ UNCHANGED <<cb, streak, genStreak, trialOK, sinceOpen, store, invalidated,
                          cached, db>>
        \/ /\ found /\ NilSessionService
           /\ db' = [db EXCEPT ![id] = <<>>]
           /\ last' = [base EXCEPT !.dbOK = TRUE, !.status = "ok"]
           /\ UNCHANGED <<cb, streak, genStreak, trialOK, sinceOpen, store, invalidated,
                          cached>>
        \/ /\ found /\ ~NilSessionService
           /\ db' = [db EXCEPT ![id] = <<>>]
           /\ \E inv \in {InvalidateSessionIn(W, id)} :
                /\ Settle(inv.w)
                /\ last' = [Did("DeleteUser", id, cb, inv.a, inv.x, inv.made) EXCEPT
                               !.dbCalls = 1, !.dbOK = TRUE, !.status = "ok",
                               !.cacheErrs = Count(Troubled(inv))]

\* the request as a whole; a deletion that returned successfully is noted
DeleteUserRequest(id) ==
    /\ DeleteUser(id)
    /\ hist' = [hist EXCEPT ![id] =
                   IF last'.status = "ok" THEN [superseded |-> <<>>, deleted |-> TRUE]
                   ELSE @]
    /\ UNCHANGED <<boot, redisAvailable, storeUp, hm, dbUp, tasks>>
    /\ UNCHANGED <<pureVars, limVars>>

\* DeleteToken from its DELETE on: inv is the invalidation it makes when the
\* DELETE succeeded and there is a session service
Deleted(w, inv) ==
    LET call == dbUp /\ ~NilSessionService
    IN  [err |-> IF dbUp THEN NoErr ELSE ErrDB,
         w |-> IF call THEN inv.w ELSE w,
         inv |-> inv, called |-> call,
         troubled |-> Count(call /\ Troubled(inv))]

\* tokenService.DeleteToken(c, tokenType, userID) on cache w: the DELETE's
\* error and the cache it leaves
DeleteTokenIn(w, userID) == Deleted(w, InvalidateSessionIn(w, userID))

\* tokenService.DeleteToken(c, tokenType, userID)
DeleteToken(userID) ==
    \E d \in {DeleteTokenIn(W, userID)} :
        /\ Settle(d.w)
        /\ last' = [(IF d.called
                     THEN Did("DeleteToken", userID, cb, d.inv.a, d.inv.x, d.inv.made)
                     ELSE [NoLast EXCEPT !.op = "DeleteToken", !.user = userID]) EXCEPT
                       !.dbCalls = 1, !.dbOK = (d.err = NoErr),
                       !.status = IF d.err = NoErr THEN "ok" ELSE "err",
                       !.cacheErrs = d.troubled]
        /\ UNCHANGED <<boot, redisAvailable, storeUp, hm, dbUp, db, tasks>>
        /\ UNCHANGED <<pureVars, limVars, histVars>>

\* tokenService.GenerateAuthTokens(c, user): e1 is the draw inside
\* CacheUserSession, e2 the draw of the GenerateSessionID call for the cookie
GenerateAuthTokens(user, e1, e2) ==
    \E d \in {DeleteTokenIn(W, SubjectOf(user))} :
    \E put \in {CacheUserSessionIn(d.w, SubjectOf(user), user, e1)} :
    LET userID == SubjectOf(user)
        sid == GenerateSessionID(e2)
        cached1 == ~NilSessionService /\ d.err = NoErr
        x1 == IF d.called THEN d.inv.x ELSE NoExec(cb)
    IN  /\ Settle(IF cached1 THEN put.w ELSE d.w)
        /\ last' = [(IF cached1
                     THEN Did("GenerateAuthTokens", userID, d.w.cb, put.a, put.x, put.made)
                     ELSE [NoLast EXCEPT !.op = "GenerateAuthTokens", !.user = userID]) EXCEPT
                       !.execs = Count(d.called /\ d.inv.made) + Count(cached1 /\ put.made),
                       !.storeCalls = Count(x1.invoked) + Count(cached1 /\ put.x.invoked),
                       !.trans = IF cached1
                                 THEN Trans(cb, x1.mid) \o Trans(x1.mid, x1.cb)
                                      \o Trans(x1.cb, put.x.mid)
                                      \o Trans(put.x.mid, put.x.cb)
                                 ELSE <<>>,
                       !.dbCalls = IF d.err = NoErr THEN 2 ELSE 1,
                       !.dbOK = (d.err = NoErr),
                       !.status = IF d.err = NoErr THEN "ok" ELSE "err",
                       !.wrote = cached1 /\ put.written,
                       !.genErr = IF cached1 /\ put.a.ok THEN put.gen.err ELSE NoErr,
                       !.cookie = IF cached1 /\ put.err = NoErr /\ sid.err = NoErr
                                  THEN <<sid.id>> ELSE <<>>,
                       !.cacheErrs = d.troubled + Count(cached1 /\ Troubled(put))
                                     + Count(cached1 /\ put.err = NoErr /\ sid.err # NoErr)]
        /\ UNCHANGED <<boot, redisAvailable, storeUp, hm, dbUp, db, tasks>>
        /\ UNCHANGED <<pureVars, limVars, histVars>>


\* the requests whose keys are generated: methods, paths, and query strings
\* made of these parameters
Methods == {MethodGet, MethodHead}

Paths == { <<47, 117, 115, 101, 114, 115>>, <<47, 117, 115, 101, 114, 115, 47>> }

QueryParts ==
    { <<97, 61, 49>>,            \* a=1
      <<97, 61, 50>>,            \* a=2
      <<98, 61, 49>>,            \* b=1
      <<98, 61, 43>>,            \* b=+
      <<99, 61, 37, 50, 98>>,    \* c=%2b
      <<99, 61, 37>>,            \* c=%   (a bad escape)
      <<97, 59, 98>> }           \* a;b

\* the orders tried on n parameters: the one given and each swap of two
\* neighbours, which between them generate every order
Orders(n) ==
    { [i \in 1..n |-> IF k = 0 THEN i
                      ELSE IF i = k THEN k + 1 ELSE IF i = k + 1 THEN k ELSE i] :
        k \in 0..(n - 1) }

\* a request's query of at most max parameters, and one that has the same
\* parameters in another order
KeyInputs(max) ==
    UNION { { [fn |-> "GenerateCacheKey", method |-> m, path |-> pth,
               q1 |-> Join(ps, Amp),
               q2 |-> Join([i \in 1..Len(ps) |-> ps[f[i]]], Amp),
               key1 |-> <<>>, key2 |-> <<>>, done |-> FALSE] :
              m \in Methods, pth \in Paths, f \in Orders(Len(ps)) } :
            ps \in UNION {[1..n -> QueryParts] : n \in 1..max} }


(***************************************************************************)
(* The CacheInvalidator (cache/invalidator.go): it holds the go-redis      *)
(* client itself, RedisClient.GetClient(), and calls it directly.          *)
(***************************************************************************)
ErrScan == "scan iterator error"

\* GetSessionPattern(userID)
GetSessionPattern(userID) == SessionKeyPrefix \o UserBytes(userID)

\* GetAPIResponseKeyPattern(userID): "api:response:*:user:%s:*"
GetAPIResponseKeyPattern(userID) ==
    CacheKeyPrefix \o <<Star>> \o <<58, 117, 115, 101, 114, 58>> \o UserBytes(userID)
    \o <<Colon, Star>>

\* "api:response:GET:/users"
UsersGet ==
    <<97, 112, 105, 58, 114, 101, 115, 112, 111, 110, 115, 101, 58, 71, 69, 84, 58,
      47, 117, 115, 101, 114, 115>>

\* "api:response:HEAD:/users"
UsersHead ==
    <<97, 112, 105, 58, 114, 101, 115, 112, 111, 110, 115, 101, 58, 72, 69, 65, 68,
      58, 47, 117, 115, 101, 114, 115>>

\* the patterns the invalidator is called with
Patterns ==
    {GetSessionPattern(u) : u \in Users} \cup {GetAPIResponseKeyPattern(u) : u \in Users}
    \cup { SessionKeyPrefix \o <<Star>>, UsersGet \o <<Star>> }

ErrDel == "failed to delete keys"

DelNeeded_Always(keys) == TRUE

\* if len(keys) > 0
DelNeeded(keys) == keys # {}

\* InvalidateByPattern on store s behind a non-nil client: up is the store's
\* reachability at the SCAN, drop whether the connection is lost before the DEL
InvalidateByPatternIn(s, up, drop, pattern) ==
    LET keys == IF up THEN Scan(s, pattern) ELSE {}
        del == up /\ DelNeeded(keys)
    IN  [store |-> IF del /\ ~drop THEN StoreDelAll(s, keys) ELSE s,
         pattern |-> pattern,
         scanErr |-> CmdErr(up),
         scanned |-> keys,
         dels |-> IF del THEN 1 ELSE 0,
         delKeys |-> IF del THEN keys ELSE {},
         delErr |-> IF del /\ drop THEN ErrIO ELSE NoErr,
         err |-> IF ~up THEN ErrScan ELSE IF del /\ drop THEN ErrDel ELSE NoErr]

\* the session entries a change of the store from s to t removed
Dropped(s, t) == {u \in Users : s[SessionKey(u)].present /\ ~t[SessionKey(u)].present}

\* CacheInvalidator.InvalidateByPattern(ctx, pattern); the receiver is nil when
\* construction gave no client
InvalidateByPattern(pattern, drop) ==
    \E r \in {InvalidateByPatternIn(store, storeUp, drop, pattern)} :
        /\ \/ /\ RedisClientNil
              /\ last' = [NoLast EXCEPT !.op = "InvalidateByPattern",
                                        !.flag = redisAvailable, !.pattern = pattern]
              /\ UNCHANGED <<store, cached, storeUp>>
           \/ /\ ~RedisClientNil
              /\ store' = r.store
              /\ storeUp' = (storeUp /\ ~(drop /\ r.dels = 1))
              /\ cached' = [u \in Users |->
                               IF u \in Dropped(store, r.store) THEN <<>> ELSE cached[u]]
              /\ last' = [NoLast EXCEPT !.op = "InvalidateByPattern",
                                        !.flag = redisAvailable, !.pattern = pattern,
                                        !.seen = cb.state,
                                        !.storeCalls = 1 + r.dels,
                                        !.storeChanged = (r.store # store),
                                        !.innerErr = r.scanErr, !.scanned = r.scanned,
                                        !.dels = r.dels, !.delKeys = r.delKeys,
                                        !.delErr = r.delErr, !.err = r.err]
        /\ UNCHANGED <<boot, redisAvailable, cb, hm, streak, genStreak, trialOK,
                       sinceOpen, invalidated>>
        /\ UNCHANGED appVars
        /\ UNCHANGED <<pureVars, limVars, histVars>>

\* the patterns InvalidateUserRelatedCache deletes, in order: the four response
\* patterns of cache/invalidator.go, or, in the file's other version, the
\* session pattern and the response pattern of the subject
UserRelatedPatterns(file, userID) ==
    IF file = "invalidator.go"
    THEN << UsersGet \o <<Star>>,
            UsersHead \o <<Star>>,
            UsersGet \o <<Slash>> \o UserBytes(userID) \o <<Star>>,
            UsersHead \o <<Slash>> \o UserBytes(userID) \o <<Star>> >>
    ELSE << GetSessionPattern(userID), GetAPIResponseKeyPattern(userID) >>

Logged_Returned(err) == err

\* what the caller's loop keeps of a pattern's error: it is logged only
Logged(err) == IF err # NoErr THEN NoErr ELSE NoErr

\* the loop of InvalidateUserRelatedCache from pattern i on; ups[i] is the
\* store's reachability during the deletion of pattern i
RECURSIVE InvalidateEach(_, _, _, _, _)
InvalidateEach(s, ups, patterns, i, errs) ==
    IF i > Len(patterns) THEN [store |-> s, errs |-> errs, err |-> NoErr]
    ELSE LET r == InvalidateByPatternIn(s, ups[i], FALSE, patterns[i])
         IN  IF Logged(r.err) # NoErr
             THEN [store |-> r.store, errs |-> Append(errs, r.err), err |-> Logged(r.err)]
             ELSE InvalidateEach(r.store, ups, patterns, i + 1, Append(errs, r.err))

\* the store's reachability during the n deletions of one call that starts with
\* reachability up: it changes from the f-th deletion on (never when f = 0)
UpsAt(n, up, f) == [i \in 1..n |-> IF f = 0 \/ i < f THEN up ELSE ~up]

\* CacheInvalidator.InvalidateUserRelatedCache(ctx, userID)
InvalidateUserRelatedCache(file, userID, f) ==
    \E ups \in {UpsAt(Len(UserRelatedPatterns(file, userID)), storeUp, f)} :
    \E r \in {InvalidateEach(store, ups, UserRelatedPatterns(file, userID), 1, <<>>)} :
        /\ \/ /\ RedisClientNil
              /\ last' = [NoLast EXCEPT !.op = "InvalidateUserRelatedCache",
                                        !.user = userID, !.flag = redisAvailable]
              /\ UNCHANGED <<store, cached, storeUp>>
           \/ /\ ~RedisClientNil
              /\ store' = r.store
              /\ storeUp' = ups[Len(ups)]
              /\ cached' = [u \in Users |->
                               IF u \in Dropped(store, r.store) THEN <<>> ELSE cached[u]]
              /\ last' = [NoLast EXCEPT !.op = "InvalidateUserRelatedCache",
                                        !.user = userID, !.flag = redisAvailable,
                                        !.seen = cb.state,
                                        !.storeChanged = (r.store # store),
                                        !.planned = Len(UserRelatedPatterns(file, userID)),
                                        !.errs = r.errs, !.err = r.err]
        /\ UNCHANGED <<boot, redisAvailable, cb, hm, streak, genStreak, trialOK,
                       sinceOpen, invalidated>>
        /\ UNCHANGED appVars
        /\ UNCHANGED <<pureVars, limVars, histVars>>

StatusOK == 200
StatusUnauthorized == 401
StatusForbidden == 403

\* the status a request to a route of the users group ends with when Auth and
\* the controller run: valid is the outcome of Auth's authentication,
\* permitted that of its rights check
RouteStatus(valid, permitted) ==
    IF ~valid THEN StatusUnauthorized
    ELSE IF ~permitted THEN StatusForbidden
    ELSE StatusOK

\* the response cache, mounted on the application in front of every route,
\* around a route that would answer status: a request that Next lets pass is
\* answered from the entry of its key when there is one, without the route's
\* handlers running; otherwise the handlers run and the response is stored
\* unless Next, asked again, says no
CachedIn(s, up, mounted, method, path, status) ==
    LET key == GenerateCacheKey(method, path, <<>>)
        bypass == ~mounted \/ CacheNext(method, path, StatusOK)
        hit == ~bypass /\ up /\ s[key].present
        keep == ~bypass /\ ~hit /\ up /\ ~CacheNext(method, path, status)
    IN  [store |-> IF keep THEN StoreSet(s, key, <<"{", "}">>) ELSE s,
         key |-> key,
         code |-> IF hit THEN StatusOK ELSE status,
         fromCache |-> hit]

\* a request to a route of the users group through the response cache
Request(method, path, valid, permitted) ==
    \E r \in {CachedIn(store, storeUp, ~RedisClientNil, method, path,
                       RouteStatus(valid, permitted))} :
        /\ store' = r.store
        /\ last' = [NoLast EXCEPT !.op = "Request", !.key = r.key, !.code = r.code,
                                  !.expected = RouteStatus(valid, permitted),
                                  !.fromCache = r.fromCache,
                                  !.token = IF valid THEN "valid" ELSE "invalid"]
        /\ UNCHANGED <<boot, redisAvailable, cb, storeUp, hm, streak, genStreak, trialOK,
                       sinceOpen, invalidated, cached>>
        /\ UNCHANGED appVars
        /\ UNCHANGED <<pureVars, limVars, histVars>>

\* the response cache stores a response under key k
Seed(k) ==
    /\ ~RedisClientNil /\ storeUp /\ ~store[k].present
    /\ store' = StoreSet(store, k, <<"{", "}">>)
    /\ last' = [NoLast EXCEPT !.op = "Seed"]
    /\ UNCHANGED <<boot, redisAvailable, cb, storeUp, hm, streak, genStreak, trialOK,
                   sinceOpen, invalidated, cached>>
    /\ UNCHANGED appVars
    /\ UNCHANGED <<pureVars, limVars, histVars>>

\* the handler limiter.New returns, around a handler that ends with status:
\* the key is derived, the entry counted and judged; a request over the limit
\* is answered by LimitReached, any other goes on and its hit is taken back
\* when the response is skipped
Limiter(locals, forwardedFor, cfIP, ip, status) ==
    \E key \in {RateKey(locals.user_id, forwardedFor, cfIP, ip)} :
    \E win \in {windowDuration(RateLimit)} :
    \E e \in {Hit(Lookup(rl.entries, storeUp, key), win)} :
    \E w \in {Window(rl.ref, key, win)} :
        /\ ~RedisClientNil /\ RateLimit.Enabled
        /\ e.currHits <= MaxHits /\ w.n < MaxHits
        /\ \/ /\ LimitReached(e, maxRequests(RateLimit), win)
              /\ rl' = [entries |-> Save(rl.entries, storeUp, key, e),
                        ref |-> Put(rl.ref, key, w)]
              /\ last' = [NoLast EXCEPT !.op = "Limiter", !.key = key,
                                        !.code = StatusTooManyRequests,
                                        !.inWindow = w.n, !.authed = locals.user]
           \/ /\ ~LimitReached(e, maxRequests(RateLimit), win)
              /\ rl' = [entries |-> Save(rl.entries, storeUp, key,
                                         IF Skipped(status) THEN Unhit(e, win) ELSE e),
                        ref |-> Put(rl.ref, key, [w EXCEPT !.n = @ + 1])]
              /\ last' = [NoLast EXCEPT !.op = "Limiter", !.key = key, !.code = status,
                                        !.inWindow = w.n, !.authed = locals.user]
        /\ UNCHANGED <<boot, redisAvailable, cb, storeUp, store, hm, streak, genStreak,
                       trialOK, sinceOpen, invalidated, cached>>
        /\ UNCHANGED appVars
        /\ UNCHANGED <<pureVars, histVars>>

Next ==
    \/ \E d \in Elapse : Tick(d)
    \/ StoreFlip
    \/ \E u \in Users : Expire(u)
    \/ \E u \in Users : CorruptEntry(u)
    \/ PkgProbe
    \/ HMStart
    \/ HMTick
    \/ ExecGuarded
    \/ \E user \in UserModels, e \in {0} \cup Entropy : CacheUserSession(SubjectOf(user), user, e)
    \/ \E u \in Users : GetUserSession(u)
    \/ \E u \in Users : InvalidateSession(u)

Spec == Init /\ [][Next]_vars

\* validation.UpdatePassOrVerify bodies: a new password, or the email verified
PassOrVerifyRequests ==
    { [Password |-> <<"p">>, VerifiedEmail |-> FALSE],
      [Password |-> <<>>, VerifiedEmail |-> TRUE] }

\* userService.UpdatePassOrVerify(c, req, id) with a valid body: the non-zero
\* fields of the body are written; no row affected (also when the database
\* does not answer) is a 404
UpdatePassOrVerify(id, req) ==
    \E found \in {dbUp /\ db[id] # <<>>} :
        /\ db' = IF found /\ req.VerifiedEmail
                 THEN [db EXCEPT ![id] = <<[db[id][1] EXCEPT !.VerifiedEmail = TRUE]>>]
                 ELSE db
        /\ last' = [NoLast EXCEPT !.op = "UpdatePassOrVerify", !.user = id,
                                  !.dbCalls = 1, !.dbOK = found,
                                  !.status = IF found THEN "ok" ELSE "404",
                                  !.attrs = found /\ db'[id] # db[id]]
        /\ UNCHANGED <<boot, redisAvailable, cb, storeUp, store, hm, streak, genStreak,
                       trialOK, sinceOpen, invalidated, cached, dbUp, tasks>>
        /\ UNCHANGED <<pureVars, limVars, histVars>>

\* userService.CreateGoogleUser(c, req) with a valid body carrying the email
\* of subject u: the user is created when there is none, else saved with the
\* body's VerifiedEmail
CreateGoogleUser(u, verified) ==
    \E q \in {GetUserByID(dbUp, db, u)} :
        /\ db' = IF q.err = ErrNotFound
                 THEN [db EXCEPT ![u] = <<[NewRow EXCEPT !.VerifiedEmail = verified]>>]
                 ELSE IF q.err = NoErr
                      THEN [db EXCEPT ![u] = <<[q.user[1] EXCEPT !.VerifiedEmail = verified]>>]
                      ELSE db
        /\ last' = [NoLast EXCEPT !.op = "CreateGoogleUser", !.user = u,
                                  !.dbCalls = IF q.err = ErrDB THEN 1 ELSE 2,
                                  !.dbOK = q.err # ErrDB,
                                  !.status = IF q.err # ErrDB THEN "ok" ELSE "err",
                                  !.attached = db'[u],
                                  !.attrs = q.err = NoErr /\ db'[u] # db[u]]
        /\ hist' = [hist EXCEPT ![u].deleted = IF q.err = ErrNotFound THEN FALSE ELSE @]
        /\ UNCHANGED <<boot, redisAvailable, cb, storeUp, store, hm, streak, genStreak,
                       trialOK, sinceOpen, invalidated, cached, dbUp, tasks>>
        /\ UNCHANGED <<pureVars, limVars>>

\* the writers of the users table beside the Auth requests that fill the cache
NextWriters ==
    \/ \E u \in Users : CreateUser(u)
    \/ \E u \in Users, valid \in BOOLEAN, permitted \in BOOLEAN :
          AuthRequest(u, valid, permitted)
    \/ \E i \in 1..Len(tasks), e \in {0} \cup Entropy : Populate(i, e)
    \/ \E u \in Users, req \in UpdateRequests, e1 \in {0} \cup Entropy,
          e2 \in {0} \cup Entropy : UpdateUserRequest(u, req, e1, e2)
    \/ \E u \in Users, req \in PassOrVerifyRequests : UpdatePassOrVerify(u, req)
    \/ \E u \in Users, verified \in BOOLEAN : CreateGoogleUser(u, verified)

SpecWriters == Init /\ [][NextWriters]_vars

\* the response cache in front of the users routes, and the invalidator
NextResp ==
    \/ StoreFlip
    \/ \E method \in {MethodGet, MethodHead, MethodPost}, path \in RoutePaths,
          valid \in BOOLEAN, permitted \in BOOLEAN : Request(method, path, valid, permitted)
    \/ \E file \in {"invalidator.go", "part_005"}, u \in Users :
          InvalidateUserRelatedCache(file, u, 0)

SpecResp == Init /\ [][NextResp]_vars

\* the session operations on a store that answers every command, from a
\* client that connected
InitHealthy == Init /\ boot = "connected"

NextHealthy ==
    \/ \E d \in Elapse : Tick(d)
    \/ \E u \in Users : Expire(u)
    \/ \E user \in UserModels, e \in {0} \cup Entropy : CacheUserSession(SubjectOf(user), user, e)
    \/ \E u \in Users : GetUserSession(u)
    \/ \E u \in Users : InvalidateSession(u)

SpecHealthy == InitHealthy /\ [][NextHealthy]_vars

\* the HealthMonitor through its whole life, Start, its loop and Stop, beside
\* the guarded client it watches over
NextHM ==
    \/ \E d \in Elapse : Tick(d)
    \/ StoreFlip
    \/ ExecGuarded
    \/ HMStart
    \/ HMTick
    \/ HMDone
    \/ HMStop
    \/ HMStopped

SpecHM == Init /\ [][NextHM]_vars

\* the application on top of the cache: requests through Auth, the business
\* operations, the database, with the store and the probe as their environment
NextApp ==
    \/ StoreFlip
    \/ PkgProbe
    \/ DBFlip
    \/ \E u \in Users : CreateUser(u)
    \/ \E u \in Users, valid \in BOOLEAN, permitted \in BOOLEAN :
          AuthRequest(u, valid, permitted)
    \/ \E i \in 1..Len(tasks), e \in {0} \cup Entropy : Populate(i, e)
    \/ \E u \in Users, req \in UpdateRequests, e1 \in {0} \cup Entropy,
          e2 \in {0} \cup Entropy : UpdateUserRequest(u, req, e1, e2)
    \/ \E u \in Users : DeleteUserRequest(u)
    \/ \E u \in Users : DeleteToken(u)
    \/ \E u \in Users, e1 \in {0} \cup Entropy, e2 \in {0} \cup Entropy :
          db[u] # <<>> /\ GenerateAuthTokens(db[u][1], e1, e2)

SpecApp == Init /\ [][NextApp]_vars

\* the handlers that issue the session_id cookie, with two random draws that
\* can be told apart (two draws of 32 random bytes differ)
Draws == {1, 2}

NextCookie ==
    \/ StoreFlip
    \/ PkgProbe
    \/ \E u \in Users : CreateUser(u)
    \/ \E u \in Users, req \in UpdateRequests, e1 \in {0} \cup Draws,
          e2 \in {0} \cup Draws : UpdateUserRequest(u, req, e1, e2)
    \/ \E u \in Users, e1 \in {0} \cup Draws, e2 \in {0} \cup Draws :
          db[u] # <<>> /\ GenerateAuthTokens(db[u][1], e1, e2)

SpecCookie == Init /\ [][NextCookie]_vars

\* the client from NewRedisClient on, whatever its outcome: startHealthMonitor's
\* ticker and the clock keep running (the goroutine, once started, is always
\* scheduled again; time passes), the store comes and goes, sessions are read
\* and written
NextLive ==
    \/ \E d \in Elapse : Tick(d)
    \/ StoreFlip
    \/ PkgProbe
    \/ \E user \in UserModels, e \in Entropy : CacheUserSession(SubjectOf(user), user, e)
    \/ \E u \in Users : GetUserSession(u)

SpecLive ==
    /\ Init
    /\ [][NextLive]_vars
    /\ WF_vars(PkgProbe)
    /\ WF_vars(\E d \in Elapse : Tick(d))

\* the invalidator next to the guarded users of the store
NextInv ==
    \/ \E d \in Elapse : Tick(d)
    \/ StoreFlip
    \/ ExecGuarded
    \/ \E user \in UserModels, e \in Entropy : CacheUserSession(SubjectOf(user), user, e)
    \/ \E u \in Users : GetUserSession(u)
    \/ \E k \in ResponseKeys : Seed(k)
    \/ \E pattern \in Patterns, drop \in BOOLEAN : InvalidateByPattern(pattern, drop)
    \/ \E file \in {"invalidator.go", "part_005"}, u \in Users :
          \E f \in 0..Len(UserRelatedPatterns(file, u)) :
             InvalidateUserRelatedCache(file, u, f)

SpecInv == Init /\ [][NextInv]_vars

\* the key generator on its own: the key of a request is generated, and the
\* key of the request with the reordered query
KeyGen ==
    /\ pure.fn = "GenerateCacheKey" /\ ~pure.done
    /\ pure' = [pure EXCEPT !.key1 = GenerateCacheKey(pure.method, pure.path, pure.q1),
                            !.key2 = GenerateCacheKey(pure.method, pure.path, pure.q2),
                            !.done = TRUE]
    /\ UNCHANGED <<boot, redisAvailable, cb, storeUp, store, hm, last, streak, genStreak,
                   trialOK, sinceOpen, invalidated, cached, dbUp, db, tasks, rl, hist>>

\* p with the separator at i doubled; at i = Len(p) a separator is appended
Dup(p, i) == SubSeq(p, 1, i) \o <<Slash>> \o SubSeq(p, i + 1, Len(p))

\* p, and p with one more duplicate or trailing separator
Variants(p) == {p} \cup {Dup(p, i) : i \in {j \in 1..Len(p) : p[j] = Slash \/ j = Len(p)}}

\* a path of at most max bytes, and a path got from it by up to two more
\* separators
PathInputs(max) ==
    UNION { { [fn |-> "normalizePath", p |-> p, q |-> q, out1 |-> <<>>, out2 |-> <<>>,
               done |-> FALSE] : q \in UNION {Variants(r) : r \in Variants(p)} } :
            p \in UNION { {<<Slash>> \o t : t \in [1..n -> {Slash, 117}]} : n \in 0..(max - 1) } }

\* normalizePath applied to both paths
NormalizePath ==
    /\ pure.fn = "normalizePath" /\ ~pure.done
    /\ pure' = [pure EXCEPT !.out1 = normalizePath(pure.p),
                            !.out2 = normalizePath(pure.q),
                            !.done = TRUE]
    /\ UNCHANGED <<boot, redisAvailable, cb, storeUp, store, hm, last, streak, genStreak,
                   trialOK, sinceOpen, invalidated, cached, dbUp, db, tasks, rl, hist>>

\* "/v1", the group every route is mounted under, and "/auth"
V1 == <<47, 118, 49>>
AuthGroup == <<47, 97, 117, 116, 104>>

\* the full paths of the login, registration, token and refresh endpoints
AuthEndpoints ==
    {V1 \o sp : sp \in skipPaths} \cup {V1 \o AuthGroup \o sp : sp \in skipPaths}

\* requests to those endpoints as the response cache's Next sees them
SkipInputs ==
    { [fn |-> "Next", method |-> m, path |-> pth, status |-> st, skip |-> FALSE,
       bypass |-> FALSE, done |-> FALSE] :
        m \in {MethodGet, MethodHead, MethodPost}, pth \in AuthEndpoints, st \in {200, 404} }

\* the response cache decides whether the request bypasses it
SkipCache ==
    /\ pure.fn = "Next" /\ ~pure.done
    /\ pure' = [pure EXCEPT !.skip = shouldSkipCache(pure.path),
                            !.bypass = CacheNext(pure.method, pure.path, pure.status),
                            !.done = TRUE]
    /\ UNCHANGED <<boot, redisAvailable, cb, storeUp, store, hm, last, streak, genStreak,
                   trialOK, sinceOpen, invalidated, cached, dbUp, db, tasks, rl, hist>>

\* the identities a request can carry: a user_id local (absent, or a subject),
\* the two proxy headers (absent, or an address), the connection address
RateInputs ==
    { [fn |-> "KeyGenerator", local |-> l, forwardedFor |-> x, cfIP |-> c, ip |-> a,
       key |-> <<>>, done |-> FALSE] :
        l \in {<<>>} \cup {<<UserBytes(u)>> : u \in Users},
        x \in {<<>>, <<49, 46, 49>>}, c \in {<<>>, <<50, 46, 50>>},
        a \in {<<51, 46, 51>>} }

\* the limiter derives the key of the request
LimiterKey ==
    /\ pure.fn = "KeyGenerator" /\ ~pure.done
    /\ pure' = [pure EXCEPT !.key = RateKey(pure.local, pure.forwardedFor, pure.cfIP,
                                           pure.ip),
                            !.done = TRUE]
    /\ UNCHANGED <<boot, redisAvailable, cb, storeUp, store, hm, last, streak, genStreak,
                   trialOK, sinceOpen, invalidated, cached, dbUp, db, tasks, rl, hist>>

(***************************************************************************)
(* LoadSessionCacheConfig: the session TTL (minutes) from the environment.  *)
(***************************************************************************)
DefaultTTL == 30
MinTTL == 10
MaxTTL == 120

IsDigit(b) == b >= 48 /\ b <= 57

\* the value of a string of decimal digits
RECURSIVE DigitsValue(_)
DigitsValue(str) ==
    IF str = <<>> THEN 0
    ELSE 10 * DigitsValue(SubSeq(str, 1, Len(str) - 1)) + (str[Len(str)] - 48)

\* strconv.Atoi: an optional sign, then decimal digits only, at least one
Atoi(str) ==
    LET signed == str # <<>> /\ str[1] \in {43, 45}
        digits == IF signed THEN Tail(str) ELSE str
    IN  IF digits = <<>> \/ \E i \in 1..Len(digits) : ~IsDigit(digits[i])
        THEN [n |-> 0, err |-> "invalid syntax"]
        ELSE [n |-> IF signed /\ str[1] = 45 THEN 0 - DigitsValue(digits)
                    ELSE DigitsValue(digits),
              err |-> NoErr]

InRange_Open(n) == TRUE

\* not (sessionTTL < 10 || sessionTTL > 120)
InRange(n) == ~(n < MinTTL \/ n > MaxTTL)

\* SessionCacheTTL after LoadSessionCacheConfig, value being what
\* viper.GetString("SESSION_CACHE_TTL") returns (empty when unset)
LoadSessionCacheConfig(value) ==
    IF value = <<>> THEN DefaultTTL
    ELSE IF Atoi(value).err # NoErr THEN DefaultTTL
    ELSE IF ~InRange(Atoi(value).n) THEN DefaultTTL
    ELSE Atoi(value).n

\* strings over b of length n
RECURSIVE Strings(_, _)
Strings(b, n) ==
    IF n = 0 THEN {<<>>} ELSE {Append(str, c) : str \in Strings(b, n - 1), c \in b}

\* the values of SESSION_CACHE_TTL: unset or empty, and every string of at most
\* max bytes over the digits 0, 1, 2, 9, the signs and a letter
TTLInputs(max) ==
    { [fn |-> "LoadSessionCacheConfig", value |-> v, ttl |-> 0, done |-> FALSE] :
        v \in UNION {Strings({48, 49, 50, 57, 43, 45, 120}, n) : n \in 0..max} }

LoadConfig ==
    /\ pure.fn = "LoadSessionCacheConfig" /\ ~pure.done
    /\ pure' = [pure EXCEPT !.ttl = LoadSessionCacheConfig(pure.value), !.done = TRUE]
    /\ UNCHANGED <<boot, redisAvailable, cb, storeUp, store, hm, last, streak, genStreak,
                   trialOK, sinceOpen, invalidated, cached, dbUp, db, tasks, rl, hist>>

\* the profiles of a RateLimiterConfig: limits and windows (seconds) below,
\* at and above each other
ConfigInputs ==
    { [fn |-> "limiter.Config",
       cfg |-> [Enabled |-> TRUE, DefaultMax |-> dm, DefaultWindow |-> dw, AuthMax |-> am,
                AuthWindow |-> aw],
       max |-> 0, expiration |-> 0, done |-> FALSE] :
        dm \in {0, 5, 100}, am \in {0, 5, 500}, dw \in {30, 60, 900}, aw \in {30, 60, 900} }

\* NewRateLimiterMiddleware resolves the configuration it hands to the limiter
LimiterConfig ==
    /\ pure.fn = "limiter.Config" /\ ~pure.done
    /\ pure' = [pure EXCEPT !.max = maxRequests(pure.cfg),
                            !.expiration = windowDuration(pure.cfg),
                            !.done = TRUE]
    /\ UNCHANGED <<boot, redisAvailable, cb, storeUp, store, hm, last, streak, genStreak,
                   trialOK, sinceOpen, invalidated, cached, dbUp, db, tasks, rl, hist>>

InitKey ==
    /\ InitCache /\ boot = "disabled" /\ storeUp
    /\ \/ pure \in KeyInputs(MaxParams)
       \/ pure \in PathInputs(MaxPath)
       \/ pure \in SkipInputs
       \/ pure \in RateInputs
       \/ pure \in ConfigInputs
       \/ pure \in TTLInputs(MaxTTLLen)

NextKey == KeyGen \/ NormalizePath \/ SkipCache \/ LimiterKey \/ LimiterConfig
             \/ LoadConfig

SpecKey == InitKey /\ [][NextKey]_vars

\* the requests the limiter sees: before Auth or after Auth has authenticated
\* them, from one connection address, without proxy headers
LimitedRequests ==
    { [locals |-> l, ip |-> <<51, 46, 51>>] :
        l \in {NoLocals} \cup {AuthLocals(user) : user \in UserModels} }

\* the rate limiter in front of the handlers, with the clock
NextLim ==
    \/ \E d \in Elapse : Tick(d)
    \/ \E r \in LimitedRequests, status \in Statuses :
          Limiter(r.locals, <<>>, <<>>, r.ip, status)

\* the limiter is built only on a client that is there
InitLim == Init /\ boot = "connected"

SpecLim == InitLim /\ [][NextLim]_vars


(***************************************************************************)
(* Properties                                                              *)
(***************************************************************************)
SessionOps == {"Cache", "Get", "Invalidate"}

\* the handler that ran last made a guarded call whose operation was not invoked
Rejected == last.execs = 1 /\ ~last.invoked

\* the handler that ran last moved the breaker from CLOSED to OPEN
Tripped == \E i \in 1..Len(last.trans) : last.trans[i] = <<StateClosed, StateOpen>>

\* the handler that ran last made a trial call in HALF-OPEN and it succeeded
TrialSucceeded == last.seen = StateHalfOpen /\ last.invoked /\ last.innerErr = NoErr

\* C1 (as claimed): whenever ExecuteWithCircuitBreaker returns without having
\* invoked the operation, the error it returns is ErrRedisUnavailable and no
\* store command was issued.
C1_Unavailable ==
    Rejected => last.innerErr = ErrRedisUnavailable /\ last.storeCalls = 0

\* C2 (as claimed): the breaker is CLOSED only while fewer than 4 guarded calls
\* have failed in a row, and it trips on the 4th consecutive failure and not
\* earlier.
C2_Original ==
    /\ cb.state = StateClosed => streak <= TripThreshold
    /\ Tripped => streak > TripThreshold

\* C2 (amended): the breaker trips only when at least 4 guarded calls have failed
\* in a row, and it is OPEN right after the 4th consecutive failure counted in
\* one counting interval: while CLOSED, fewer than 4 failures in a row have been
\* counted since the interval began.
C2_Trip ==
    /\ cb.state = StateClosed => genStreak <= TripThreshold
    /\ Tripped => genStreak = TripThreshold + 1 /\ streak > TripThreshold

C2_Witness == Tripped /\ last.op = "Get"

\* C3 (as claimed): one successful trial call in HALF-OPEN closes the breaker.
C3_Original == TrialSucceeded => cb.state = StateClosed

\* C3 (amended): a successful trial call in HALF-OPEN closes the breaker exactly
\* when it is the 5th successful trial call since the breaker became HALF-OPEN.
C3_FiveTrials == TrialSucceeded => (cb.state = StateClosed <=> trialOK = MaxRequests)

C3_Witness == TrialSucceeded /\ cb.state = StateClosed

AllowedTransitions ==
    { <<StateClosed, StateOpen>>, <<StateOpen, StateHalfOpen>>,
      <<StateHalfOpen, StateClosed>>, <<StateHalfOpen, StateOpen>> }

C4_State ==
    /\ \A i \in 1..Len(last.trans) :
          /\ last.trans[i] \in AllowedTransitions
          /\ last.trans[i][1] = StateOpen => last.openFor >= Timeout
    /\ last.seen = StateHalfOpen /\ last.invoked /\ last.innerErr # NoErr
          => cb.state = StateOpen

C4_Step ==
    cb'.state # cb.state =>
        /\ <<cb.state, cb'.state>> \in AllowedTransitions
        /\ last'.trans # <<>>
        /\ cb.state = StateOpen => sinceOpen >= Timeout

\* C4: the breaker's state changes only along CLOSED->OPEN, OPEN->HALF-OPEN,
\* HALF-OPEN->CLOSED and HALF-OPEN->OPEN; it leaves OPEN only once 30 s have
\* passed since it opened; a failed trial call in HALF-OPEN leaves it OPEN.
C4_Transitions == [](C4_State) /\ [][C4_Step]_vars

C4_Witness ==
    last.trans = << <<StateOpen, StateHalfOpen>>, <<StateHalfOpen, StateOpen>> >>

\* C5 (as claimed): each availability query, the package's IsAvailable and
\* HealthMonitor.IsAvailable, answers true only if its availability flag is true
\* and the breaker's state is not OPEN.
C5_Queries ==
    /\ IsAvailable(redisAvailable, HasCB, cb).ok
          => redisAvailable = 1 /\ currentState(cb).state # StateOpen
    /\ hm.phase # "absent" /\ HMIsAvailable(hm)
          => hm.available /\ currentState(cb).state # StateOpen

\* C6: a session operation that finds IsAvailable() false (flag 0, or breaker
\* OPEN) makes no guarded call and no store call, leaves the store as it is, and
\* returns ErrCacheMiss (GetUserSession) or nil (CacheUserSession,
\* InvalidateSession).
C6_NoStoreTouch ==
    last.op \in SessionOps /\ (last.flag = 0 \/ last.seen = StateOpen) =>
        /\ last.execs = 0
        /\ last.storeCalls = 0
        /\ ~last.storeChanged
        /\ last.rec = <<>>
        /\ last.err = IF last.op = "Get" THEN ErrCacheMiss ELSE NoErr

C6_Witness ==
    /\ last.op = "Get" /\ last.flag = 1 /\ last.seen = StateOpen
    /\ store[SessionKey(last.user)].present

\* C7 (as claimed): GetUserSession returns either a record and a nil error, or
\* no record and ErrCacheMiss.
C7_NeverHard ==
    last.op = "Get" =>
        \/ Len(last.rec) = 1 /\ last.err = NoErr
        \/ last.rec = <<>> /\ last.err = ErrCacheMiss

C9_InvalidateNil == last.op = "Invalidate" => last.err = NoErr

C9_Witness == last.op = "Invalidate" /\ last.invoked /\ last.innerErr # NoErr

\* C10: with the flag set, the breaker CLOSED and the store reachable,
\* GetUserSession for a subject whose record CacheUserSession wrote and nothing
\* touched since returns that user's name, email, role and verified flag and a
\* non-empty session token.
C10_RoundTrip ==
    /\ last.op = "Get" /\ last.cachedBefore # <<>>
    /\ last.flag = 1 /\ last.seen = StateClosed /\ storeUp
    => /\ last.err = NoErr
       /\ Len(last.rec) = 1
       /\ last.rec[1].Name = last.cachedBefore[1].Name
       /\ last.rec[1].Email = last.cachedBefore[1].Email
       /\ last.rec[1].Role = last.cachedBefore[1].Role
       /\ last.rec[1].VerifiedEmail = last.cachedBefore[1].VerifiedEmail
       /\ last.rec[1].SessionID # <<>>

C10_Witness ==
    /\ last.op = "Get" /\ last.cachedBefore # <<>>
    /\ last.flag = 1 /\ last.seen = StateClosed /\ storeUp
    /\ last.cachedBefore[1].Name = <<"<", "\"", "\\">>
    /\ Len(last.rec) = 1

\* the session operation that ran last found IsAvailable() true
FoundAvailable == last.flag = 1 /\ last.seen # StateOpen

Authenticating == last.op = "Auth" /\ last.token = "valid"

\* the request passed authentication (the rights check may still refuse it)
Proceeds == last.status \in {"next", "403"}

\* C12 (as claimed): every run of Auth on a valid token follows the authenticate
\* state machine: on a hit it proceeds with no database query; on a miss or a
\* cache error it queries the database exactly once; if the query fails or
\* finds no user it answers 401 and starts no population; otherwise it starts
\* one population and proceeds with the user read from the database.
C12_StateMachine ==
    Authenticating =>
        /\ last.hit => last.dbCalls = 0 /\ Proceeds /\ last.spawned = 0
        /\ ~last.hit => last.dbCalls = 1
        /\ ~last.hit /\ ~last.dbOK =>
              last.status = "401" /\ last.spawned = 0 /\ last.attached = <<>>
        /\ ~last.hit /\ last.dbOK =>
              Proceeds /\ last.spawned = 1 /\ last.attached = db[last.user]

\* Auth took its miss path: GetUserSession returned without a record
MissPath == Authenticating /\ ~last.hit /\ last.dbCalls = 1

\* C13: on the miss path the request has its result while the population it
\* started has not run: the task is still pending, nothing was written to the
\* store, and status and attached user are those of the database query alone,
\* whatever the store, the flag and the breaker will make of the population.
C13_FireAndForget ==
    MissPath =>
        /\ last.storeCalls <= 1 /\ ~last.storeChanged /\ ~last.wrote
        /\ last.dbOK <=> (dbUp /\ db[last.user] # <<>>)
        /\ last.dbOK =>
              /\ Proceeds /\ last.attached = db[last.user]
              /\ tasks # <<>>
              /\ tasks[Len(tasks)] = [userID |-> last.user, user |-> db[last.user][1]]
        /\ ~last.dbOK => last.status = "401" /\ last.attached = <<>>

\* the population Auth started will fail: the store is unreachable
C13_Witness ==
    /\ MissPath /\ last.dbOK /\ last.status = "next"
    /\ ~storeUp /\ redisAvailable = 1 /\ cb.state = StateClosed

\* C14 (as claimed): with no session service (cache disabled or failed at
\* construction) a request with a valid token is served from the database as on
\* a miss, without panic.
C14_Bypass ==
    Authenticating /\ NilSessionService =>
        /\ last.status # "panic"
        /\ last.dbCalls = 1
        /\ dbUp /\ db[last.user] # <<>> => Proceeds /\ last.attached = db[last.user]

\* C15 (as claimed): UpdateUser, DeleteUser, DeleteToken and GenerateAuthTokens
\* return success whenever their database steps succeeded, whatever failed in
\* the session layer.
C15_NeverBlocked == last.op \in BusinessOps /\ last.dbOK => last.status = "ok"

\* both keys of a request whose query parses have been generated
KeysGenerated == pure.fn = "GenerateCacheKey" /\ pure.done /\ ParseQuery(pure.q1).ok

\* C20 (as claimed): for any method and path, two query strings that hold the
\* same name=value parameters in different orders get the same key.
C20_OrderFree == KeysGenerated => pure.key1 = pure.key2

\* C16 (as claimed): every store command of a higher-level component is issued
\* inside a guarded call (ExecuteWithCircuitBreaker), and none is issued while
\* the breaker is OPEN.
C16_AllGuarded ==
    last.storeCalls > 0 => last.storeCalls <= last.execs /\ last.seen # StateOpen

\* a probe of the HealthMonitor has just run
HMProbing == last.op \in {"HMStart", "HMTick"}

\* C17 (as claimed): the HealthMonitor calls onStateChange exactly once for a
\* probe that changes its availability flag and never for a probe, the initial
\* one included, that leaves the flag at its previous value.
C17_EdgesOnly == HMProbing => last.notified = (IF last.flipped THEN 1 ELSE 0)

\* the handler that ran last took the breaker to OPEN
Opened == \E i \in 1..Len(last.trans) : last.trans[i][2] = StateOpen

\* C18 (as claimed): the availability flag is true right after a successful
\* probe, false right after a failed probe, and false in every state reached
\* right after a breaker transition to OPEN.
C18_FlagLifecycle ==
    /\ last.op = "Probe" => redisAvailable = (IF last.innerErr = NoErr THEN 1 ELSE 0)
    /\ Opened => redisAvailable = 0

\* C19 (as claimed): a call to Stop terminates in every state of the monitor,
\* never started, running or already stopped: a Stop that waits on stopChan
\* always has a Start loop, running or finished, that closes the channel.
C19_StopReturns == hm.stop = "waiting" => hm.phase \in {"running", "stopped"}

\* both paths of a pair have been normalized
PathsNormalized == pure.fn = "normalizePath" /\ pure.done

\* C21 (as claimed): a path and the path got from it by any number of
\* duplicate separators or by a trailing separator normalize to the same path.
C21_PathInvariant == PathsNormalized => pure.out1 = pure.out2

\* the reference canonicalization: every run of separators collapsed to one
RECURSIVE Collapse(_)
Collapse(p) ==
    IF Len(p) < 2 THEN p
    ELSE IF p[1] = Slash /\ p[2] = Slash THEN Collapse(Tail(p))
    ELSE <<p[1]>> \o Collapse(Tail(p))

\* then one trailing separator stripped, the root path kept
Canonical(p) ==
    LET c == Collapse(p)
    IN  IF Len(c) > 1 /\ c[Len(c)] = Slash THEN SubSeq(c, 1, Len(c) - 1) ELSE c

\* C22 (as claimed): normalizePath is the reference canonicalization on every
\* path: runs collapsed to one separator, one trailing separator stripped, the
\* root path "/" unchanged.
C22_Canonical ==
    PathsNormalized => pure.out1 = Canonical(pure.p) /\ pure.out2 = Canonical(pure.q)

\* C23 (as claimed): the key is prefix, method, ":", normalized path, ":", "?",
\* sorted query, in that order.
C23_Layout ==
    pure.fn = "GenerateCacheKey" /\ pure.done =>
        pure.key1 = CacheKeyPrefix \o pure.method \o <<Colon>> \o normalizePath(pure.path)
                    \o <<Colon, Question>> \o sortQueryParams(pure.q1)

\* C24 (as claimed): for every request to a login, registration, token or
\* refresh endpoint under /v1, whatever its method, the skip predicate is true
\* and the request bypasses the response cache.
C24_NeverCacheable == pure.fn = "Next" /\ pure.done => pure.skip /\ pure.bypass

\* the limiter's key of a request has been derived
KeyDerived == pure.fn = "KeyGenerator" /\ pure.done

\* C29 (as claimed): the rate-limit key is that of the first present input in
\* the order user_id local, X-Forwarded-For, CF-Connecting-IP, connection
\* address.
C29_Priority ==
    KeyDerived =>
        /\ pure.local # <<>> => pure.key = RateUserPrefix \o pure.local[1]
        /\ pure.local = <<>> /\ pure.forwardedFor # <<>>
              => pure.key = RateIPPrefix \o pure.forwardedFor
        /\ pure.local = <<>> /\ pure.forwardedFor = <<>> /\ pure.cfIP # <<>>
              => pure.key = RateIPPrefix \o pure.cfIP
        /\ pure.local = <<>> /\ pure.forwardedFor = <<>> /\ pure.cfIP = <<>>
              => pure.key = RateIPPrefix \o pure.ip

C29_Witness ==
    KeyDerived /\ pure.local = <<>> /\ pure.forwardedFor # <<>> /\ pure.cfIP # <<>>

\* a step that is a call of InvalidateByPattern on a non-nil client
PatternStep == last'.op = "InvalidateByPattern" /\ ~RedisClientNil

\* a successful call deletes exactly the keys matching its pattern and leaves
\* every other key as it was
ExactlyMatching ==
    PatternStep /\ last'.err = NoErr =>
        \A k \in Keys : store'[k] = IF Match(last'.pattern, k) THEN Absent ELSE store[k]

\* the seeded example: both response keys stored, subject u1's response pattern
SeededExample ==
    /\ PatternStep /\ last'.err = NoErr
    /\ last'.pattern = GetAPIResponseKeyPattern("u1")
    /\ store[ListKey].present /\ store[UserKey].present

\* C25 (as claimed): with both response keys stored, InvalidateByPattern with
\* subject u1's response pattern deletes the subject's key and only that key;
\* in general a successful call deletes exactly the matching keys and leaves
\* every other key unchanged.
C25_DeletesMatching ==
    [][ /\ ExactlyMatching
        /\ SeededExample => store'[ListKey].present /\ ~store'[UserKey].present ]_vars

\* a call of InvalidateByPattern on a non-nil client has returned
PatternDone == last.op = "InvalidateByPattern" /\ ~RedisClientNil

\* C26: InvalidateByPattern returns an error and issues no delete when the scan
\* fails; returns nil and issues no delete when the scan collects no key;
\* otherwise issues exactly one delete of all collected keys and returns an
\* error exactly when that delete fails.
C26_ScanThenDelete ==
    PatternDone =>
        /\ last.innerErr # NoErr => last.err # NoErr /\ last.dels = 0
        /\ last.innerErr = NoErr /\ last.scanned = {} => last.err = NoErr /\ last.dels = 0
        /\ last.innerErr = NoErr /\ last.scanned # {} =>
              /\ last.dels = 1 /\ last.delKeys = last.scanned
              /\ last.err # NoErr <=> last.delErr # NoErr

C26_Witness ==
    /\ PatternDone /\ last.innerErr = NoErr /\ Cardinality(last.scanned) = 2
    /\ last.dels = 1 /\ last.delErr # NoErr /\ last.err = ErrDel

\* C27: InvalidateUserRelatedCache returns nil whatever its deletions return,
\* and on a non-nil client attempts every pattern's deletion, also after one
\* that failed.
C27_AllAttempted ==
    last.op = "InvalidateUserRelatedCache" =>
        /\ last.err = NoErr
        /\ ~RedisClientNil => Len(last.errs) = last.planned /\ last.planned >= 2

C27_Witness ==
    /\ last.op = "InvalidateUserRelatedCache" /\ ~RedisClientNil
    /\ Len(last.errs) = 4 /\ last.errs[1] # NoErr /\ last.errs[4] = NoErr
    /\ last.storeChanged

\* the limiter has handled a request
Limited == last.op = "Limiter"

\* C28 (as claimed): with max 5 and a window of 60 s, a request that fewer than
\* 5 admitted requests of its key precede in the window is admitted, and one
\* that 5 admitted requests precede in the window is rejected with 429,
\* whatever the admitted responses' statuses; the first request after a
\* window is over is counted in a new window.
C28_FiveThenReject ==
    Limited =>
        /\ last.inWindow < 5 => last.code # StatusTooManyRequests
        /\ last.inWindow >= 5 => last.code = StatusTooManyRequests

\* C30 (as claimed): a request Auth has authenticated is counted under the
\* user key of its subject.
C30_CountedBySubject ==
    Limited /\ last.authed # <<>> =>
        last.key = RateUserPrefix \o UserBytes(SubjectOf(last.authed[1]))

\* the limiter's configuration has been resolved
Resolved == pure.fn = "limiter.Config" /\ pure.done

\* C31: the effective Max is the larger of DefaultMax and AuthMax and the
\* effective Expiration the larger of DefaultWindow and AuthWindow, each on its
\* own; neither is below either profile's value.
C31_LargerOfEach ==
    Resolved =>
        /\ pure.max \in {pure.cfg.DefaultMax, pure.cfg.AuthMax}
        /\ pure.max >= pure.cfg.DefaultMax /\ pure.max >= pure.cfg.AuthMax
        /\ pure.expiration \in {pure.cfg.DefaultWindow, pure.cfg.AuthWindow}
        /\ pure.expiration >= pure.cfg.DefaultWindow
        /\ pure.expiration >= pure.cfg.AuthWindow

C31_Witness ==
    /\ Resolved
    /\ pure.cfg.AuthMax > pure.cfg.DefaultMax /\ pure.cfg.DefaultWindow > pure.cfg.AuthWindow
    /\ pure.max = pure.cfg.AuthMax /\ pure.expiration = pure.cfg.DefaultWindow

\* the decimal numeral of a natural number
RECURSIVE Decimal(_)
Decimal(n) == IF n < 10 THEN <<48 + n>> ELSE Append(Decimal(n \div 10), 48 + (n % 10))

\* a numeral without a leading plus sign and leading zeros
RECURSIVE Plain(_)
Plain(str) ==
    IF Len(str) > 1 /\ str[1] \in {43, 48} THEN Plain(Tail(str)) ELSE str

\* LoadSessionCacheConfig has run
Loaded == pure.fn = "LoadSessionCacheConfig" /\ pure.done

\* C32: after LoadSessionCacheConfig the TTL is within [10, 120]; it is the
\* configured value when that is an integer in [10, 120], and 30 otherwise.
C32_Bounded ==
    Loaded =>
        /\ pure.ttl >= 10 /\ pure.ttl <= 120
        /\ \A n \in 10..120 : pure.value = Decimal(n) => pure.ttl = n
        /\ pure.ttl # 30 => Plain(pure.value) = Decimal(pure.ttl)

C32_Witness == Loaded /\ pure.value = <<49, 50, 48>> /\ pure.ttl = 120

\* C33 (as claimed): once UpdateUser has returned successfully for a role
\* change of a subject, the subject's cached session never holds the replaced
\* role, whatever Auth requests and their populating goroutines run when.
C33_NeverPreviousRole ==
    \A u \in Users :
        hist[u].superseded # <<>> /\ cached[u] # <<>> =>
            cached[u][1].Role # hist[u].superseded[1]

\* C34 (as claimed): once DeleteUser has returned successfully for a subject,
\* a request with a still-valid token of that subject is not authenticated,
\* from the session cache or otherwise.
C34_DeletedStaysOut ==
    last.op = "Auth" /\ last.token = "valid" /\ hist[last.user].deleted =>
        ~last.hit /\ last.attached = <<>>

\* C35 (as claimed): while every store command succeeds, no sequence of
\* session operations moves the breaker out of CLOSED; reads of an absent key
\* are not counted as failures.
C35_StaysClosed == storeUp /\ cb.state = StateClosed

\* the session attributes of a user
SessionAttrs(user) == <<user.Name, user.Email, user.Role, user.VerifiedEmail>>

\* a writer of the users table has returned successfully after changing a
\* session attribute
Written ==
    /\ last.status = "ok"
    /\ \/ last.op = "UpdateUser"
       \/ last.op \in {"UpdatePassOrVerify", "CreateGoogleUser"} /\ last.attrs

\* C36 (as claimed): when UpdateUser, UpdatePassOrVerify or CreateGoogleUser
\* has returned after changing a session attribute, the store being available
\* and no populating goroutine pending, the subject has no cached session built
\* from other attribute values than the row's.
C36_InvalidatedOnWrite ==
    Written /\ ~RedisClientNil /\ storeUp /\ last.cacheErrs = 0 /\ tasks = <<>> =>
        \/ cached[last.user] = <<>>
        \/ SessionAttrs(cached[last.user][1]) = SessionAttrs(db[last.user][1])

\* InvalidateUserRelatedCache has returned, every deletion having succeeded
InvalidatedAll ==
    /\ last.op = "InvalidateUserRelatedCache" /\ ~RedisClientNil
    /\ Len(last.errs) = last.planned
    /\ \A i \in 1..Len(last.errs) : last.errs[i] = NoErr

\* C37 (as claimed): after InvalidateUserRelatedCache for a subject, with the
\* store healthy, the store holds no response the cache stored for a GET or
\* HEAD request to the user-list route or to the subject's route.
C37_RoutesCleared ==
    InvalidatedAll =>
        \A m \in {MethodGet, MethodHead} :
            /\ ~store[GenerateCacheKey(m, UsersRoute, <<>>)].present
            /\ ~store[GenerateCacheKey(m, UsersRoute \o <<Slash>> \o UserBytes(last.user),
                                       <<>>)].present

\* C38 (as claimed): a GET request to a protected route is answered as it
\* would be with an empty cache, whatever its token and whatever response of
\* another request has been cached.
C38_AsWithEmptyCache == last.op = "Request" => last.code = last.expected

\* C39 (as claimed): whenever GenerateAuthTokens or UpdateUser issues the
\* session_id cookie, the call wrote the user's session record, and the
\* cookie's value is the SessionID of the record the store then holds.
C39_CookieIsStoredToken ==
    (last.op \in {"GenerateAuthTokens", "UpdateUser"} /\ last.cookie # <<>>)
        => /\ last.wrote
           /\ store[SessionKey(last.user)].present
           /\ Unmarshal(store[SessionKey(last.user)].bytes).data.SessionID = last.cookie[1]

\* what IsAvailable() answers in the current state
Available == IsAvailable(redisAvailable, HasCB, cb).ok

\* C40 (as claimed): once NewRedisClient has run, whatever its outcome, if
\* from some point on the store stays reachable then from some point on
\* IsAvailable() answers true for good.
C40_EventuallyAvailable ==
    (boot # "disabled" /\ <>[]storeUp) => <>[]Available

====
